---------------------------- MODULE Spec2Model ----------------------------
(***************************************************************************)
(* A model of the BCS codec of aptopher (package bcs: Serializer and       *)
(* Deserializer) and of the typed values that ride on it (U128, U256,      *)
(* AccountAddress).                                                        *)
(*                                                                         *)
(* Representation of Go values:                                            *)
(*   byte        a number in 0..255                                        *)
(*   []byte      a sequence of bytes; a string is its UTF-8 bytes          *)
(*   uint16/32/64  a sequence of 16/32/64 bits, least significant first    *)
(*               (TLC's integers are 32-bit signed, so a machine word is   *)
(*               kept as its bits and shifts/masks act on the bits)        *)
(*   *big.Int    [isnil, neg, abs]: nil pointer, or sign and magnitude,    *)
(*               abs being what big.Int.Bytes() returns (big-endian, no    *)
(*               leading zero byte)                                        *)
(*   error       a string, NoError standing for nil                        *)
(***************************************************************************)
EXTENDS Integers, Sequences, FiniteSets, TLC

VARIABLES
    ser,      \* the Serializer in use
    wlog,     \* the calls made on it, in order: [call, arg]
    des,      \* the Deserializer in use
    phase,    \* "encode", "built", "serialized", "decode", "deserialized"
    matched,  \* how many reads so far mirrored wlog in order; -1: not a mirror
    op,       \* the last call: [name, n, t]
    ret,      \* what the last call returned
    panic     \* the run-time panic that ended the program, or NoPanic

vars == <<ser, wlog, des, phase, matched, op, ret, panic>>

---------------------------------------------------------------------------
(* Bounds of the model *)

\* the longest sequence of Serializer calls on one instance
MaxWrites == 2
\* the longest sequence of writes whose bytes are handed to a Deserializer
MaxRoundTrip == 1

---------------------------------------------------------------------------
(* Machine words as bit sequences *)

Pow2(n) == 2 ^ n

\* the w low bits of the number n (n < 2^16), least significant first
BitsOf(n, w) == [i \in 1..w |-> (n \div Pow2(i - 1)) % 2]

RECURSIVE NatOf(_)
\* the number a short bit sequence stands for
NatOf(bits) ==
    IF bits = <<>> THEN 0 ELSE bits[1] + 2 * NatOf(Tail(bits))

\* a uint16 / uint32 / uint64 literal from its 16-bit groups, most
\* significant group first (0x12345678 is Uint32(4660, 22136))
Uint16(a) == BitsOf(a, 16)
Uint32(a, b) == BitsOf(b, 16) \o BitsOf(a, 16)
Uint64(a, b, c, d) == BitsOf(d, 16) \o BitsOf(c, 16) \o BitsOf(b, 16) \o BitsOf(a, 16)

\* v >> k on a word of Len(v) bits
ShiftRight(v, k) ==
    [i \in 1..Len(v) |-> IF i + k <= Len(v) THEN v[i + k] ELSE 0]

\* uint32(x) << k for a byte-sized x: bits shifted past bit 31 are lost
ShiftLeft32(x, k) ==
    [i \in 1..32 |-> IF i - 1 >= k /\ i - 1 - k < 8
                     THEN (x \div Pow2(i - 1 - k)) % 2 ELSE 0]

\* a | b
BitOr(a, b) == [i \in 1..Len(a) |-> IF a[i] = 1 \/ b[i] = 1 THEN 1 ELSE 0]

IsZero(v) == \A i \in 1..Len(v) : v[i] = 0

Zero(w) == [i \in 1..w |-> 0]

\* byte(v): the low eight bits of a word
LowByte(v) == NatOf(SubSeq(v, 1, 8))

\* variant of PutUint with the bytes in the opposite order (big-endian)
PutUintBigEndian(v, n) == [i \in 1..n |-> LowByte(ShiftRight(v, 8 * (n - i)))]

\* binary.LittleEndian.PutUint16/32/64: b[i] = byte(v >> (8*i))
PutUint(v, n) == [i \in 1..n |-> LowByte(ShiftRight(v, 8 * (i - 1)))]

\* binary.LittleEndian.Uint16/32/64: v = b[0] | b[1]<<8 | ...
GetUint(b, n) ==
    [j \in 1..(8 * n) |-> (b[((j - 1) \div 8) + 1] \div Pow2((j - 1) % 8)) % 2]

\* uint32(n) of a Go int n >= 0 that fits TLC's integers
Uint32OfInt(n) == BitsOf(n % 65536, 16) \o BitsOf((n \div 65536) % 65536, 16)

\* int(v) of a uint32 on a 64-bit platform. TLC's integers end at 2^31-1:
\* a value of 2^30 or more is kept as 2^30, which compares with every
\* buffer length of the model as the exact value does.
IntOfUint32(v) ==
    IF v[31] = 1 \/ v[32] = 1 THEN Pow2(30) ELSE NatOf(v)

RECURSIVE Reverse(_)
Reverse(s) == IF s = <<>> THEN <<>> ELSE Append(Reverse(Tail(s)), Head(s))

RECURSIVE StripLeadingZeros(_)
StripLeadingZeros(s) ==
    IF s = <<>> THEN <<>>
    ELSE IF Head(s) = 0 THEN StripLeadingZeros(Tail(s)) ELSE s

Repeat(b, n) == [i \in 1..n |-> b]

---------------------------------------------------------------------------
(* math/big *)

BigNil == [isnil |-> TRUE, neg |-> FALSE, abs |-> <<>>]

\* a *big.Int of the given sign and big-endian magnitude
Big(neg, abs) == [isnil |-> FALSE, neg |-> neg, abs |-> abs]

\* new(big.Int).SetBytes(buf): buf is a big-endian unsigned integer
SetBytes(buf) == Big(FALSE, StripLeadingZeros(buf))

\* big.NewInt(0)
BigZero == Big(FALSE, <<>>)

---------------------------------------------------------------------------
(* Errors *)

NoError == "nil"
ErrU128Nil == "bcs: U128 value is nil"
ErrU128Negative == "bcs: U128 value is negative"
ErrU128TooLarge == "bcs: U128 value too large"
ErrU256Nil == "bcs: U256 value is nil"
ErrU256Negative == "bcs: U256 value is negative"
ErrU256TooLarge == "bcs: U256 value too large"
ErrEndOfInput == "bcs: unexpected end of input"
ErrInvalidBool == "bcs: invalid boolean value"
ErrUlebOverflow == "bcs: ULEB128 overflow"
ErrInvalidOption == "bcs: invalid option tag"
ErrTrailing == "bcs: bytes remaining after deserialization"
\* errors composed types latch through SetError
ErrTypeTagNil == "TypeTag value is nil"
ErrUnknownVariant == "unknown TypeTag variant"

\* Go run-time panics
NoPanic == "none"
PanicIndex == "index out of range"
PanicMakeslice == "makeslice: len out of range"
PanicSliceBounds == "slice bounds out of range"
PanicNilDeref == "nil pointer dereference"

---------------------------------------------------------------------------
(* Serializer *)

NewSerializer == [buf |-> <<>>, err |-> NoError]

Serializer_SetError(s, e) == IF s.err = NoError THEN [s EXCEPT !.err = e] ELSE s

\* the nil slice is [isnil |-> TRUE]
NilBytes == [isnil |-> TRUE, bytes |-> <<>>]
SomeBytes(b) == [isnil |-> FALSE, bytes |-> b]

Serializer_ToBytes(s) == IF s.err # NoError THEN NilBytes ELSE SomeBytes(s.buf)

Serializer_Bool(s, v) ==
    IF s.err # NoError THEN s
    ELSE IF v THEN [s EXCEPT !.buf = Append(@, 1)]
    ELSE [s EXCEPT !.buf = Append(@, 0)]

Serializer_U8(s, v) ==
    IF s.err # NoError THEN s ELSE [s EXCEPT !.buf = Append(@, v)]

Serializer_U16(s, v) ==
    IF s.err # NoError THEN s ELSE [s EXCEPT !.buf = @ \o PutUint(v, 2)]

Serializer_U32(s, v) ==
    IF s.err # NoError THEN s ELSE [s EXCEPT !.buf = @ \o PutUint(v, 4)]

Serializer_U64(s, v) ==
    IF s.err # NoError THEN s ELSE [s EXCEPT !.buf = @ \o PutUint(v, 8)]

\* buf[len(bytes)-1-i] = b over a zeroed array of n bytes: the magnitude
\* reversed, zero-padded on the high end
PadLittleEndian(bytes, n) == Reverse(bytes) \o Repeat(0, n - Len(bytes))

\* variant of Serializer.U128 without the v.Sign() < 0 check
Serializer_U128NoSignCheck(s, v) ==
    IF s.err # NoError THEN s
    ELSE IF v.isnil THEN Serializer_SetError(s, ErrU128Nil)
    ELSE IF Len(v.abs) > 16 THEN Serializer_SetError(s, ErrU128TooLarge)
    ELSE [s EXCEPT !.buf = @ \o PadLittleEndian(v.abs, 16)]

Serializer_U128(s, v) ==
    IF s.err # NoError THEN s
    ELSE IF v.isnil THEN Serializer_SetError(s, ErrU128Nil)
    ELSE IF v.neg THEN Serializer_SetError(s, ErrU128Negative)
    ELSE IF Len(v.abs) > 16 THEN Serializer_SetError(s, ErrU128TooLarge)
    ELSE [s EXCEPT !.buf = @ \o PadLittleEndian(v.abs, 16)]

Serializer_U256(s, v) ==
    IF s.err # NoError THEN s
    ELSE IF v.isnil THEN Serializer_SetError(s, ErrU256Nil)
    ELSE IF v.neg THEN Serializer_SetError(s, ErrU256Negative)
    ELSE IF Len(v.abs) > 32 THEN Serializer_SetError(s, ErrU256TooLarge)
    ELSE [s EXCEPT !.buf = @ \o PadLittleEndian(v.abs, 32)]

RECURSIVE Uleb128Bytes(_)
\* the loop of Serializer.Uleb128: the bytes written for the uint32 v
Uleb128Bytes(v) ==
    LET b == NatOf(SubSeq(v, 1, 7))
        rest == ShiftRight(v, 7)
    IN  IF IsZero(rest) THEN <<b>>
        ELSE <<b + 128>> \o Uleb128Bytes(rest)

Serializer_Uleb128(s, v) ==
    IF s.err # NoError THEN s ELSE [s EXCEPT !.buf = @ \o Uleb128Bytes(v)]

Serializer_Bytes(s, v) ==
    IF s.err # NoError THEN s
    ELSE LET s1 == Serializer_Uleb128(s, Uint32OfInt(Len(v)))
         IN  [s1 EXCEPT !.buf = @ \o v]

\* variant of Serializer.FixedBytes without the s.err != nil check
Serializer_FixedBytesUnlatched(s, v) == [s EXCEPT !.buf = @ \o v]

Serializer_FixedBytes(s, v) ==
    IF s.err # NoError THEN s ELSE [s EXCEPT !.buf = @ \o v]

Serializer_String(s, v) == Serializer_Bytes(s, v)


---------------------------------------------------------------------------
(* Values passed to and returned by the calls. Every value has the same    *)
(* record shape; k names the Go type and only the fields of that type are  *)
(* used:                                                                   *)
(*   bool: b     uint8: n     uint16/32/64: s (bits)     *big.Int: big     *)
(*   []byte, string: s        error: e                                     *)
(*   nil: a nil slice or nil pointer        void: no return value          *)
(*   U128, U256: big (the value field)      AccountAddress: s (32 bytes)   *)
(*   slice: items ([]T)       ptr: items (one element, *T)                 *)

Void ==
    [k |-> "void", b |-> FALSE, n |-> 0, s |-> <<>>, big |-> BigNil,
     items |-> <<>>, e |-> NoError]

VNil == [Void EXCEPT !.k = "nil"]
VBool(b) == [Void EXCEPT !.k = "bool", !.b = b]
VU8(n) == [Void EXCEPT !.k = "uint8", !.n = n]
VU16(v) == [Void EXCEPT !.k = "uint16", !.s = v]
VU32(v) == [Void EXCEPT !.k = "uint32", !.s = v]
VU64(v) == [Void EXCEPT !.k = "uint64", !.s = v]
VBig(v) == IF v.isnil THEN VNil ELSE [Void EXCEPT !.k = "big.Int", !.big = v]
VBytes(bs) == [Void EXCEPT !.k = "[]byte", !.s = bs]
VString(bs) == [Void EXCEPT !.k = "string", !.s = bs]
VError(e) == [Void EXCEPT !.k = "error", !.e = e]
\* an error returned next to the value v an out-parameter was left with
VErrorWith(e, v) == [Void EXCEPT !.k = "error", !.e = e, !.items = <<v>>]
VSlice(items) == [Void EXCEPT !.k = "slice", !.items = items]
VPtr(item) == [Void EXCEPT !.k = "ptr", !.items = <<item>>]
\* the ([]byte, error) pair bcs.Serialize returns
VBytesError(bytes, e) ==
    IF bytes.isnil THEN [Void EXCEPT !.k = "nil", !.e = e]
    ELSE [Void EXCEPT !.k = "[]byte", !.s = bytes.bytes, !.e = e]

---------------------------------------------------------------------------
(* Typed values: U128, U256, AccountAddress *)

AccountAddressLength == 32

U128Of(value) == [Void EXCEPT !.k = "U128", !.big = value]
U256Of(value) == [Void EXCEPT !.k = "U256", !.big = value]
AccountAddressOf(bytes) == [Void EXCEPT !.k = "AccountAddress", !.s = bytes]

\* U128.BigInt / U256.BigInt
BigInt(u) == IF u.big.isnil THEN BigZero ELSE u.big

\* TypeTag{Value: nil} and TypeTag{Value: value}
TypeTagNil == [Void EXCEPT !.k = "TypeTag"]
TypeTagOf(value) == [Void EXCEPT !.k = "TypeTag", !.items = <<value>>]

\* &BoolTag{}, &U8Tag{}, ...: the variants without a payload
PrimitiveTagNames ==
    {"BoolTag", "U8Tag", "U16Tag", "U32Tag", "U64Tag", "U128Tag", "U256Tag",
     "AddressTag", "SignerTag"}
PrimitiveTag(name) == [Void EXCEPT !.k = name]

\* &VectorTag{ElementType: elem}
VectorTag(elem) == [Void EXCEPT !.k = "VectorTag", !.items = <<elem>>]

\* &StructTag{Address, Module, Name, TypeParams}; a nil and an empty
\* TypeParams are both the empty sequence
StructTag(address, module, name, params) ==
    [Void EXCEPT !.k = "StructTag", !.s = address,
                 !.items = <<VString(module), VString(name), VSlice(params)>>]

\* TransactionPayload{Payload: nil} and TransactionPayload{Payload: p}
TransactionPayloadNil == [Void EXCEPT !.k = "TransactionPayload"]
TransactionPayloadOf(p) == [Void EXCEPT !.k = "TransactionPayload", !.items = <<p>>]

\* ModuleId{Address, Name}
ModuleId(address, name) ==
    [Void EXCEPT !.k = "ModuleId", !.s = address, !.items = <<VString(name)>>]

\* EntryFunction{Module, Function, TypeArgs, Args}; Args are byte strings
EntryFunction(module, function, typeArgs, args) ==
    [Void EXCEPT !.k = "EntryFunction",
                 !.items = <<module, VString(function), VSlice(typeArgs),
                             VSlice(args)>>]

\* ScriptArgument{Variant, Value}; a nil Value is VNil
ScriptArgument(variant, value) ==
    [Void EXCEPT !.k = "ScriptArgument", !.n = variant, !.items = <<value>>]

\* Script{Code, TypeArgs, Args}
Script(code, typeArgs, args) ==
    [Void EXCEPT !.k = "Script",
                 !.items = <<VBytes(code), VSlice(typeArgs), VSlice(args)>>]

\* TransactionExecutable{Variant, Script, EntryFunc}; each pointer is VNil or
\* VPtr of the value
TransactionExecutable(variant, script, entryFunc) ==
    [Void EXCEPT !.k = "TransactionExecutable", !.n = variant,
                 !.items = <<script, entryFunc>>]

\* TransactionExtraConfigV1{MultisigAddress, ReplayProtectionNonce}; each
\* pointer is VNil or VPtr of the value
TransactionExtraConfigV1(multisigAddress, nonce) ==
    [Void EXCEPT !.k = "TransactionExtraConfigV1",
                 !.items = <<multisigAddress, nonce>>]

\* TransactionInnerPayloadV1{Executable, ExtraConfig}
TransactionInnerPayloadV1(executable, extraConfig) ==
    [Void EXCEPT !.k = "TransactionInnerPayloadV1",
                 !.items = <<executable, extraConfig>>]

\* crypto.SignatureScheme
Ed25519Scheme == 0
Secp256k1Scheme == 2

\* the TransactionAuthenticatorVariant of a single sender
TransactionAuthenticatorSingleSender == 4

\* TransactionAuthenticator{Variant, Auth}; a nil Auth is VNil
TransactionAuthenticator(variant, auth) ==
    [Void EXCEPT !.k = "TransactionAuthenticator", !.n = variant,
                 !.items = <<auth>>]

\* AccountAuthenticatorEd25519{PublicKey, Signature}
AccountAuthenticatorEd25519(publicKey, signature) ==
    [Void EXCEPT !.k = "AccountAuthenticatorEd25519",
                 !.items = <<VBytes(publicKey), VBytes(signature)>>]

\* AnyPublicKey{Variant, PublicKey} and AnySignature{Variant, Signature}
AnyPublicKey(variant, publicKey) ==
    [Void EXCEPT !.k = "AnyPublicKey", !.n = variant, !.s = publicKey]
AnySignature(variant, signature) ==
    [Void EXCEPT !.k = "AnySignature", !.n = variant, !.s = signature]

\* AccountAuthenticatorSingleKey{PublicKey, Signature}
AccountAuthenticatorSingleKey(publicKey, signature) ==
    [Void EXCEPT !.k = "AccountAuthenticatorSingleKey",
                 !.items = <<publicKey, signature>>]

\* RawTransaction{Sender, SequenceNumber, Payload, MaxGasAmount,
\* GasUnitPrice, ExpirationTimestampSecs, ChainID}
RawTransaction(sender, sequenceNumber, payload, maxGasAmount, gasUnitPrice, expirationTimestampSecs, chainID) ==
    [Void EXCEPT !.k = "RawTransaction", !.s = sender, !.n = chainID,
                 !.items = <<VU64(sequenceNumber), payload, VU64(maxGasAmount),
                             VU64(gasUnitPrice),
                             VU64(expirationTimestampSecs)>>]

\* SignedTransaction{RawTxn, Authenticator}. RawTxn is a pointer: rawTxn is
\* what it points to when the SignedTransaction is read
SignedTransaction(rawTxn, authenticator) ==
    [Void EXCEPT !.k = "SignedTransaction", !.items = <<rawTxn, authenticator>>]

\* the payloadVariant method of each payload (the TransactionPayloadVariant
\* constants)
payloadVariant(p) ==
    CASE p.k = "Script" -> 0
      [] p.k = "EntryFunction" -> 2
      [] p.k = "TransactionInnerPayloadV1" -> 4

\* the Go type ScriptArgument.MarshalBCS asserts Value to have under each
\* Variant (the ScriptArgumentVariant constants)
ScriptArgumentTypes ==
    <<"uint8", "uint64", "U128", "AccountAddress", "[]byte", "bool", "uint16",
      "uint32", "U256">>

PanicTypeAssertion == "interface conversion"

RECURSIVE MarshalPanics(_)
RECURSIVE EachPanics(_)
\* the run-time panic m.MarshalBCS raises: a method called on a nil
\* interface or through a nil pointer, a failed type assertion. No
\* MarshalBCS returns early on a latched error, so the panic does not
\* depend on the Serializer.
MarshalPanics(m) ==
    CASE m.k = "TransactionPayload" ->
            IF m.items = <<>> THEN PanicNilDeref ELSE MarshalPanics(m.items[1])
      [] m.k = "Script" -> EachPanics(m.items[3].items)
      [] m.k = "ScriptArgument" ->
            IF m.n + 1 \in DOMAIN ScriptArgumentTypes
                 /\ m.items[1].k # ScriptArgumentTypes[m.n + 1]
            THEN PanicTypeAssertion ELSE NoPanic
      [] m.k = "TransactionInnerPayloadV1" -> MarshalPanics(m.items[1])
      [] m.k = "TransactionExecutable" ->
            IF m.n = 0
            THEN IF m.items[1].k = "nil" THEN PanicNilDeref
                 ELSE MarshalPanics(m.items[1].items[1])
            ELSE IF m.n = 1
            THEN IF m.items[2].k = "nil" THEN PanicNilDeref
                 ELSE MarshalPanics(m.items[2].items[1])
            ELSE NoPanic
      [] m.k = "TransactionAuthenticator" ->
            IF m.items[1].k = "nil" THEN PanicNilDeref
            ELSE MarshalPanics(m.items[1])
      [] m.k = "RawTransaction" -> MarshalPanics(m.items[2])
      [] m.k = "SignedTransaction" ->
            IF MarshalPanics(m.items[1]) # NoPanic THEN MarshalPanics(m.items[1])
            ELSE MarshalPanics(m.items[2])
      [] OTHER -> NoPanic

\* the first panic of for _, item := range items { item.MarshalBCS(ser) }
EachPanics(items) ==
    IF items = <<>> THEN NoPanic
    ELSE IF MarshalPanics(Head(items)) # NoPanic THEN MarshalPanics(Head(items))
    ELSE EachPanics(Tail(items))

\* variant of typeTagVariant with the constants in the order of the widths
\* (u16 and u32 before u64)
typeTagVariantByWidth(v) ==
    CASE v.k = "BoolTag" -> 0
      [] v.k = "U8Tag" -> 1
      [] v.k = "U16Tag" -> 2
      [] v.k = "U32Tag" -> 3
      [] v.k = "U64Tag" -> 4
      [] v.k = "U128Tag" -> 5
      [] v.k = "U256Tag" -> 6
      [] v.k = "AddressTag" -> 7
      [] v.k = "SignerTag" -> 8
      [] v.k = "VectorTag" -> 9
      [] v.k = "StructTag" -> 10

\* the typeTagVariant method of each variant (the TypeTagVariant constants)
typeTagVariant(v) ==
    CASE v.k = "BoolTag" -> 0
      [] v.k = "U8Tag" -> 1
      [] v.k = "U64Tag" -> 2
      [] v.k = "U128Tag" -> 3
      [] v.k = "AddressTag" -> 4
      [] v.k = "SignerTag" -> 5
      [] v.k = "VectorTag" -> 6
      [] v.k = "StructTag" -> 7
      [] v.k = "U16Tag" -> 8
      [] v.k = "U32Tag" -> 9
      [] v.k = "U256Tag" -> 10

RECURSIVE MarshalBCS(_, _)
RECURSIVE MarshalEach(_, _)
\* the MarshalBCS method of the value m
MarshalBCS(s, m) ==
    CASE m.k = "U128" -> Serializer_U128(s, BigInt(m))
      [] m.k = "U256" -> Serializer_U256(s, BigInt(m))
      [] m.k = "AccountAddress" -> Serializer_FixedBytes(s, m.s)
      [] m.k = "TypeTag" ->
            IF m.items = <<>> THEN Serializer_SetError(s, ErrTypeTagNil)
            ELSE MarshalBCS(
                    Serializer_Uleb128(s, Uint32OfInt(typeTagVariant(m.items[1]))),
                    m.items[1])
      [] m.k \in PrimitiveTagNames -> s
      [] m.k = "VectorTag" -> MarshalBCS(s, m.items[1])
      [] m.k = "StructTag" ->
            LET s1 == Serializer_FixedBytes(s, m.s)
                s2 == Serializer_String(s1, m.items[1].s)
                s3 == Serializer_String(s2, m.items[2].s)
                s4 == Serializer_Uleb128(s3, Uint32OfInt(Len(m.items[3].items)))
            IN  MarshalEach(s4, m.items[3].items)
      [] m.k = "TransactionPayload" ->
            MarshalBCS(
                Serializer_Uleb128(s, Uint32OfInt(payloadVariant(m.items[1]))),
                m.items[1])
      [] m.k = "ModuleId" ->
            Serializer_String(Serializer_FixedBytes(s, m.s), m.items[1].s)
      \* ser.Bytes(arg) of the loop over EntryFunction.Args
      [] m.k = "[]byte" -> Serializer_Bytes(s, m.s)
      [] m.k = "EntryFunction" ->
            LET s1 == MarshalBCS(s, m.items[1])
                s2 == Serializer_String(s1, m.items[2].s)
                s3 == Serializer_Uleb128(s2, Uint32OfInt(Len(m.items[3].items)))
                s4 == MarshalEach(s3, m.items[3].items)
                s5 == Serializer_Uleb128(s4, Uint32OfInt(Len(m.items[4].items)))
            IN  MarshalEach(s5, m.items[4].items)
      [] m.k = "Script" ->
            LET s1 == Serializer_Bytes(s, m.items[1].s)
                s2 == Serializer_Uleb128(s1, Uint32OfInt(Len(m.items[2].items)))
                s3 == MarshalEach(s2, m.items[2].items)
                s4 == Serializer_Uleb128(s3, Uint32OfInt(Len(m.items[3].items)))
            IN  MarshalEach(s4, m.items[3].items)
      [] m.k = "ScriptArgument" ->
            LET s1 == Serializer_Uleb128(s, Uint32OfInt(m.n))
                v == m.items[1]
            IN  CASE m.n = 0 -> Serializer_U8(s1, v.n)
                  [] m.n = 6 -> Serializer_U16(s1, v.s)
                  [] m.n = 7 -> Serializer_U32(s1, v.s)
                  [] m.n = 1 -> Serializer_U64(s1, v.s)
                  [] m.n \in {2, 8, 3} -> MarshalBCS(s1, v)
                  [] m.n = 4 -> Serializer_Bytes(s1, v.s)
                  [] m.n = 5 -> Serializer_Bool(s1, v.b)
                  [] OTHER -> s1
      [] m.k = "TransactionInnerPayloadV1" ->
            MarshalBCS(MarshalBCS(Serializer_Uleb128(s, Uint32OfInt(0)), m.items[1]),
                       m.items[2])
      [] m.k = "TransactionExecutable" ->
            LET s1 == Serializer_Uleb128(s, Uint32OfInt(m.n)) IN
            IF m.n = 0 THEN MarshalBCS(s1, m.items[1].items[1])
            ELSE IF m.n = 1 THEN MarshalBCS(s1, m.items[2].items[1])
            ELSE s1
      [] m.k = "TransactionExtraConfigV1" ->
            LET s1 == Serializer_Uleb128(s, Uint32OfInt(0))
                s2 == IF m.items[1].k = "nil" THEN Serializer_U8(s1, 0)
                      ELSE MarshalBCS(Serializer_U8(s1, 1), m.items[1].items[1])
            IN  IF m.items[2].k = "nil" THEN Serializer_U8(s2, 0)
                ELSE Serializer_U64(Serializer_U8(s2, 1), m.items[2].items[1].s)
      [] m.k = "TransactionAuthenticator" ->
            MarshalBCS(Serializer_Uleb128(s, Uint32OfInt(m.n)), m.items[1])
      [] m.k = "AccountAuthenticatorEd25519" ->
            Serializer_FixedBytes(Serializer_FixedBytes(s, m.items[1].s),
                                  m.items[2].s)
      [] m.k = "AccountAuthenticatorSingleKey" ->
            MarshalBCS(MarshalBCS(s, m.items[1]), m.items[2])
      [] m.k \in {"AnyPublicKey", "AnySignature"} ->
            LET s1 == Serializer_Uleb128(s, Uint32OfInt(m.n))
            IN  IF m.n \in {Ed25519Scheme, Secp256k1Scheme}
                THEN Serializer_FixedBytes(s1, m.s)
                ELSE Serializer_Bytes(s1, m.s)
      [] m.k = "RawTransaction" ->
            LET s1 == Serializer_FixedBytes(s, m.s)
                s2 == Serializer_U64(s1, m.items[1].s)
                s3 == MarshalBCS(s2, m.items[2])
                s4 == Serializer_U64(s3, m.items[3].s)
                s5 == Serializer_U64(s4, m.items[4].s)
                s6 == Serializer_U64(s5, m.items[5].s)
            IN  Serializer_U8(s6, m.n)
      [] m.k = "SignedTransaction" ->
            MarshalBCS(MarshalBCS(s, m.items[1]), m.items[2])

Serializer_Struct(s, v) ==
    IF s.err # NoError THEN s ELSE MarshalBCS(s, v)

\* for _, item := range items { item.MarshalBCS(s) }
MarshalEach(s, items) ==
    IF items = <<>> THEN s
    ELSE MarshalEach(MarshalBCS(s, Head(items)), Tail(items))

SerializeSequence(s, items) ==
    IF s.err # NoError THEN s
    ELSE MarshalEach(Serializer_Uleb128(s, Uint32OfInt(Len(items))), items)

SerializeOption(s, opt) ==
    IF s.err # NoError THEN s
    ELSE IF opt.k = "nil" THEN Serializer_U8(s, 0)
    ELSE MarshalBCS(Serializer_U8(s, 1), opt.items[1])

\* bcs.Serialize: the serializer it ends with and the pair it returns
Serialize(v) ==
    LET Marshaled(s, p) ==
            IF p # NoPanic
            THEN [s |-> NewSerializer, ret |-> Void, panic |-> p]
            ELSE IF s.err # NoError
            THEN [s |-> s, ret |-> VBytesError(NilBytes, s.err), panic |-> NoPanic]
            ELSE [s |-> s, ret |-> VBytesError(Serializer_ToBytes(s), NoError),
                  panic |-> NoPanic]
    IN  Marshaled(MarshalBCS(NewSerializer, v), MarshalPanics(v))


---------------------------------------------------------------------------
(* Deserializer. A method is an operator from the Deserializer to the      *)
(* outcome of the call: the Deserializer after it, the value returned and  *)
(* the run-time panic raised, if any.                                      *)

NewDeserializer(data) == [data |-> data, offset |-> 0, err |-> NoError]

Return(d, v) == [d |-> d, ret |-> v, panic |-> NoPanic]
Crash(d, p) == [d |-> d, ret |-> Void, panic |-> p]

\* variant of Deserializer.SetError that keeps the last error
Deserializer_SetErrorOverwrite(d, e) == [d EXCEPT !.err = e]

Deserializer_SetError(d, e) == IF d.err = NoError THEN [d EXCEPT !.err = e] ELSE d

Remaining(d) == Len(d.data) - d.offset

\* variant of checkRemaining that accepts one missing byte
checkRemainingOffByOne(d, n) ==
    IF d.err # NoError THEN [ok |-> FALSE, d |-> d]
    ELSE IF d.offset + n > Len(d.data) + 1
    THEN [ok |-> FALSE, d |-> [d EXCEPT !.err = ErrEndOfInput]]
    ELSE [ok |-> TRUE, d |-> d]

\* variant of checkRemaining that skips to the end of the input when it
\* reports the lack of input
checkRemainingSkips(d, n) ==
    IF d.err # NoError THEN [ok |-> FALSE, d |-> d]
    ELSE IF d.offset + n > Len(d.data)
    THEN [ok |-> FALSE, d |-> [d EXCEPT !.err = ErrEndOfInput,
                                        !.offset = Len(d.data)]]
    ELSE [ok |-> TRUE, d |-> d]

\* the Deserializer after the call and the boolean returned
checkRemaining(d, n) ==
    IF d.err # NoError THEN [ok |-> FALSE, d |-> d]
    ELSE IF d.offset + n > Len(d.data)
    THEN [ok |-> FALSE, d |-> Deserializer_SetError(d, ErrEndOfInput)]
    ELSE [ok |-> TRUE, d |-> d]

\* d.data[d.offset+i] is within the slice for every i < n
InRange(d, n) == d.offset >= 0 /\ d.offset + n <= Len(d.data)

\* d.data[d.offset : d.offset+n]
Window(d, n) == SubSeq(d.data, d.offset + 1, d.offset + n)

Advance(d, n) == [d EXCEPT !.offset = @ + n]

Deserializer_Bool(d) ==
    LET c == checkRemaining(d, 1) IN
    IF ~c.ok THEN Return(c.d, VBool(FALSE))
    ELSE IF ~InRange(c.d, 1) THEN Crash(c.d, PanicIndex)
    ELSE LET b == c.d.data[c.d.offset + 1]
             d1 == Advance(c.d, 1)
         IN  CASE b = 0 -> Return(d1, VBool(FALSE))
               [] b = 1 -> Return(d1, VBool(TRUE))
               [] OTHER -> Return(Deserializer_SetError(d1, ErrInvalidBool), VBool(FALSE))

Deserializer_U8(d) ==
    LET c == checkRemaining(d, 1) IN
    IF ~c.ok THEN Return(c.d, VU8(0))
    ELSE IF ~InRange(c.d, 1) THEN Crash(c.d, PanicIndex)
    ELSE Return(Advance(c.d, 1), VU8(c.d.data[c.d.offset + 1]))

Deserializer_U16(d) ==
    LET c == checkRemaining(d, 2) IN
    IF ~c.ok THEN Return(c.d, VU16(Zero(16)))
    ELSE IF ~InRange(c.d, 2) THEN Crash(c.d, PanicIndex)
    ELSE Return(Advance(c.d, 2), VU16(GetUint(Window(c.d, 2), 2)))

Deserializer_U32(d) ==
    LET c == checkRemaining(d, 4) IN
    IF ~c.ok THEN Return(c.d, VU32(Zero(32)))
    ELSE IF ~InRange(c.d, 4) THEN Crash(c.d, PanicIndex)
    ELSE Return(Advance(c.d, 4), VU32(GetUint(Window(c.d, 4), 4)))

Deserializer_U64(d) ==
    LET c == checkRemaining(d, 8) IN
    IF ~c.ok THEN Return(c.d, VU64(Zero(64)))
    ELSE IF ~InRange(c.d, 8) THEN Crash(c.d, PanicIndex)
    ELSE Return(Advance(c.d, 8), VU64(GetUint(Window(c.d, 8), 8)))

\* buf[15-i] = d.data[d.offset+i]; new(big.Int).SetBytes(buf[:])
Deserializer_U128(d) ==
    LET c == checkRemaining(d, 16) IN
    IF ~c.ok THEN Return(c.d, VNil)
    ELSE IF ~InRange(c.d, 16) THEN Crash(c.d, PanicIndex)
    ELSE Return(Advance(c.d, 16), VBig(SetBytes(Reverse(Window(c.d, 16)))))

Deserializer_U256(d) ==
    LET c == checkRemaining(d, 32) IN
    IF ~c.ok THEN Return(c.d, VNil)
    ELSE IF ~InRange(c.d, 32) THEN Crash(c.d, PanicIndex)
    ELSE Return(Advance(c.d, 32), VBig(SetBytes(Reverse(Window(c.d, 32)))))

RECURSIVE Uleb128LoopShift28(_, _, _)
\* variant of the loop of Deserializer.Uleb128 that reports an overflow
\* once the shift reaches 28 instead of once it exceeds 28
Uleb128LoopShift28(d, result, shift) ==
    LET c == checkRemaining(d, 1) IN
    IF ~c.ok THEN Return(c.d, VU32(Zero(32)))
    ELSE IF ~InRange(c.d, 1) THEN Crash(c.d, PanicIndex)
    ELSE LET b == c.d.data[c.d.offset + 1]
             d1 == Advance(c.d, 1)
             r1 == BitOr(result, ShiftLeft32(b % 128, shift))
         IN  IF b \div 128 = 0 THEN Return(d1, VU32(r1))
             ELSE IF shift + 7 >= 28
             THEN Return(Deserializer_SetError(d1, ErrUlebOverflow), VU32(Zero(32)))
             ELSE Uleb128LoopShift28(d1, r1, shift + 7)

RECURSIVE Uleb128Loop(_, _, _)
\* the for loop of Deserializer.Uleb128, entered with the given result and
\* shift
Uleb128Loop(d, result, shift) ==
    LET c == checkRemaining(d, 1) IN
    IF ~c.ok THEN Return(c.d, VU32(Zero(32)))
    ELSE IF ~InRange(c.d, 1) THEN Crash(c.d, PanicIndex)
    ELSE LET b == c.d.data[c.d.offset + 1]
             d1 == Advance(c.d, 1)
             r1 == BitOr(result, ShiftLeft32(b % 128, shift))
         IN  IF b \div 128 = 0 THEN Return(d1, VU32(r1))
             ELSE IF shift + 7 > 28
             THEN Return(Deserializer_SetError(d1, ErrUlebOverflow), VU32(Zero(32)))
             ELSE Uleb128Loop(d1, r1, shift + 7)

Deserializer_Uleb128(d) ==
    IF d.err # NoError THEN Return(d, VU32(Zero(32)))
    ELSE Uleb128Loop(d, Zero(32), 0)

Deserializer_Bytes(d) ==
    LET Checked(length, c) ==
            IF ~c.ok THEN Return(c.d, VNil)
            ELSE IF ~InRange(c.d, length) THEN Crash(c.d, PanicSliceBounds)
            ELSE Return(Advance(c.d, length), VBytes(Window(c.d, length)))
        Counted(l, length) == Checked(length, checkRemaining(l.d, length))
        Prefixed(l) ==
            IF l.panic # NoPanic THEN l
            ELSE IF l.d.err # NoError THEN Return(l.d, VNil)
            ELSE Counted(l, IntOfUint32(l.ret.s))
    IN  Prefixed(Deserializer_Uleb128(d))

Deserializer_FixedBytes(d, length) ==
    LET c == checkRemaining(d, length) IN
    IF ~c.ok THEN Return(c.d, VNil)
    ELSE IF length < 0 THEN Crash(c.d, PanicMakeslice)
    ELSE IF ~InRange(c.d, length) THEN Crash(c.d, PanicSliceBounds)
    ELSE Return(Advance(c.d, length), VBytes(Window(c.d, length)))

Deserializer_FixedBytesNoCopy(d, length) ==
    LET c == checkRemaining(d, length) IN
    IF ~c.ok THEN Return(c.d, VNil)
    ELSE IF length < 0 \/ ~InRange(c.d, length) THEN Crash(c.d, PanicSliceBounds)
    ELSE Return(Advance(c.d, length), VBytes(Window(c.d, length)))

\* string(d.Bytes()): the string of a nil slice is the empty string
Deserializer_String(d) ==
    LET Converted(r) ==
            IF r.panic # NoPanic THEN r ELSE Return(r.d, VString(r.ret.s))
    IN  Converted(Deserializer_Bytes(d))


---------------------------------------------------------------------------
(* Composed types on the Deserializer *)

\* the zero value of a type, what a factory returns (&U128{}, ...)
ZeroValue(t) ==
    CASE t = "U128" -> U128Of(BigNil)
      [] t = "U256" -> U256Of(BigNil)
      [] t = "AccountAddress" -> AccountAddressOf(Repeat(0, AccountAddressLength))
      [] t = "TypeTag" -> TypeTagNil

\* TypeTagVariant(x) of a uint32 x: the conversion to uint8 keeps the low
\* eight bits
TypeTagVariantOf(x) == NatOf(SubSeq(x, 1, 8))

\* the variant without a payload that TypeTag.UnmarshalBCS builds for a
\* TypeTagVariant
PrimitiveTagOfVariant(variant) ==
    CASE variant = 0 -> PrimitiveTag("BoolTag")
      [] variant = 1 -> PrimitiveTag("U8Tag")
      [] variant = 2 -> PrimitiveTag("U64Tag")
      [] variant = 3 -> PrimitiveTag("U128Tag")
      [] variant = 4 -> PrimitiveTag("AddressTag")
      [] variant = 5 -> PrimitiveTag("SignerTag")
      [] variant = 8 -> PrimitiveTag("U16Tag")
      [] variant = 9 -> PrimitiveTag("U32Tag")
      [] variant = 10 -> PrimitiveTag("U256Tag")

RECURSIVE UnmarshalBCS(_, _)
RECURSIVE UnmarshalTypeParams(_, _, _)
RECURSIVE UnmarshalStructTag(_)

\* the UnmarshalBCS method of a zero value of type t; ret is the value
\* after the call
UnmarshalBCS(d, t) ==
    CASE t = "U128" ->
            LET r == Deserializer_U128(d) IN
            IF r.panic # NoPanic THEN r ELSE Return(r.d, U128Of(r.ret.big))
      [] t = "U256" ->
            LET r == Deserializer_U256(d) IN
            IF r.panic # NoPanic THEN r ELSE Return(r.d, U256Of(r.ret.big))
      [] t = "AccountAddress" ->
            LET r == Deserializer_FixedBytes(d, AccountAddressLength) IN
            IF r.panic # NoPanic THEN r
            ELSE IF r.d.err # NoError THEN Return(r.d, ZeroValue(t))
            ELSE Return(r.d, AccountAddressOf(r.ret.s))
      [] t = "TypeTag" ->
            LET Vector(e) ==
                    IF e.panic # NoPanic THEN e
                    ELSE Return(e.d, TypeTagOf(VectorTag(e.ret)))
                Struct(st) ==
                    IF st.panic # NoPanic THEN st
                    ELSE Return(st.d, TypeTagOf(st.ret))
                Tagged(l, variant) ==
                    IF l.panic # NoPanic THEN l
                    ELSE IF l.d.err # NoError THEN Return(l.d, TypeTagNil)
                    ELSE IF variant \in {0, 1, 2, 3, 4, 5, 8, 9, 10}
                    THEN Return(l.d, TypeTagOf(PrimitiveTagOfVariant(variant)))
                    ELSE IF variant = 6
                    THEN Vector(UnmarshalBCS(l.d, "TypeTag"))
                    ELSE IF variant = 7
                    THEN Struct(UnmarshalStructTag(l.d))
                    ELSE Return(Deserializer_SetError(l.d, ErrUnknownVariant),
                                TypeTagNil)
                Variant(l) == Tagged(l, TypeTagVariantOf(l.ret.s))
            IN  Variant(Deserializer_Uleb128(d))

\* the loop of StructTag.UnmarshalBCS with n elements still to read; it
\* does not stop at an error
UnmarshalTypeParams(d, n, params) ==
    IF n = 0 THEN Return(d, VSlice(params))
    ELSE LET Element(e) ==
                 IF e.panic # NoPanic THEN e
                 ELSE UnmarshalTypeParams(e.d, n - 1, Append(params, e.ret))
         IN  Element(UnmarshalBCS(d, "TypeTag"))

\* StructTag.UnmarshalBCS on a zero StructTag
UnmarshalStructTag(d) ==
    LET TypeParams(a, m, n, ps) ==
            IF ps.panic # NoPanic THEN ps
            ELSE Return(ps.d, StructTag(a.ret.s, m.ret.s, n.ret.s, ps.ret.items))
        Count(a, m, n, l) ==
            IF l.panic # NoPanic THEN l
            ELSE TypeParams(a, m, n,
                            UnmarshalTypeParams(l.d, IntOfUint32(l.ret.s), <<>>))
        Name(a, m, n) ==
            IF n.panic # NoPanic THEN n
            ELSE Count(a, m, n, Deserializer_Uleb128(n.d))
        Module(a, m) ==
            IF m.panic # NoPanic THEN m
            ELSE Name(a, m, Deserializer_String(m.d))
        Address(a) ==
            IF a.panic # NoPanic THEN a
            ELSE Module(a, Deserializer_String(a.d))
    IN  Address(UnmarshalBCS(d, "AccountAddress"))

\* ret is v after the call
Deserializer_Struct(d, t) ==
    IF d.err # NoError THEN Return(d, ZeroValue(t)) ELSE UnmarshalBCS(d, t)

RECURSIVE SequenceLoop(_, _, _, _)
\* the for loop of DeserializeSequence with n elements still to read
SequenceLoop(d, t, n, result) ==
    IF n = 0 THEN Return(d, VSlice(result))
    ELSE LET Item(item) ==
                 IF item.panic # NoPanic THEN item
                 ELSE IF item.d.err # NoError THEN Return(item.d, VNil)
                 ELSE SequenceLoop(item.d, t, n - 1, Append(result, item.ret))
         IN  Item(UnmarshalBCS(d, t))

DeserializeSequence(d, t) ==
    IF d.err # NoError THEN Return(d, VNil)
    ELSE LET Counted(l) ==
                 IF l.panic # NoPanic THEN l
                 ELSE IF l.d.err # NoError THEN Return(l.d, VNil)
                 ELSE SequenceLoop(l.d, t, IntOfUint32(l.ret.s), <<>>)
         IN  Counted(Deserializer_Uleb128(d))

\* variant of DeserializeOption that takes every non-zero tag as Some
DeserializeOptionNonZero(d, t) ==
    IF d.err # NoError THEN Return(d, VNil)
    ELSE LET Item(item) ==
                 IF item.panic # NoPanic THEN item
                 ELSE IF item.d.err # NoError THEN Return(item.d, VNil)
                 ELSE Return(item.d, VPtr(item.ret))
             Flagged(h) ==
                 IF h.panic # NoPanic THEN h
                 ELSE IF h.d.err # NoError THEN Return(h.d, VNil)
                 ELSE IF h.ret.n = 0 THEN Return(h.d, VNil)
                 ELSE Item(UnmarshalBCS(h.d, t))
         IN  Flagged(Deserializer_U8(d))

DeserializeOption(d, t) ==
    IF d.err # NoError THEN Return(d, VNil)
    ELSE LET Item(item) ==
                 IF item.panic # NoPanic THEN item
                 ELSE IF item.d.err # NoError THEN Return(item.d, VNil)
                 ELSE Return(item.d, VPtr(item.ret))
             Flagged(h) ==
                 IF h.panic # NoPanic THEN h
                 ELSE IF h.d.err # NoError THEN Return(h.d, VNil)
                 ELSE CASE h.ret.n = 0 -> Return(h.d, VNil)
                        [] h.ret.n = 1 -> Item(UnmarshalBCS(h.d, t))
                        [] OTHER ->
                             Return(Deserializer_SetError(h.d, ErrInvalidOption),
                                    VNil)
         IN  Flagged(Deserializer_U8(d))

\* variant of bcs.Deserialize without the d.Remaining() > 0 check
DeserializeNoTrailing(data, t) ==
    LET Result(r) ==
            IF r.panic # NoPanic THEN r
            ELSE IF r.d.err # NoError THEN Return(r.d, VErrorWith(r.d.err, r.ret))
            ELSE Return(r.d, VErrorWith(NoError, r.ret))
    IN  Result(UnmarshalBCS(NewDeserializer(data), t))

\* bcs.Deserialize(data, v) for v a zero value of type t: the error
\* returned and v after the call, with the Deserializer the call ends with
Deserialize(data, t) ==
    LET Result(r) ==
            IF r.panic # NoPanic THEN r
            ELSE IF r.d.err # NoError THEN Return(r.d, VErrorWith(r.d.err, r.ret))
            ELSE IF Remaining(r.d) > 0
            THEN Return(r.d, VErrorWith(ErrTrailing, r.ret))
            ELSE Return(r.d, VErrorWith(NoError, r.ret))
    IN  Result(UnmarshalBCS(NewDeserializer(data), t))


---------------------------------------------------------------------------
(* Constructors of U128 and U256, with math/big's decimal parser *)

\* NewU128FromBigInt: new(big.Int).Set(v) dereferences v
NewU128FromBigInt(v) ==
    IF v.isnil THEN [ret |-> Void, panic |-> PanicNilDeref]
    ELSE [ret |-> U128Of(v), panic |-> NoPanic]

NewU256FromBigInt(v) ==
    IF v.isnil THEN [ret |-> Void, panic |-> PanicNilDeref]
    ELSE [ret |-> U256Of(v), panic |-> NoPanic]

RECURSIVE MulAdd(_, _, _)
\* abs*m + carry on a little-endian magnitude
MulAdd(le, m, carry) ==
    IF le = <<>> THEN (IF carry = 0 THEN <<>> ELSE <<carry>>)
    ELSE LET x == Head(le) * m + carry
         IN  <<x % 256>> \o MulAdd(Tail(le), m, x \div 256)

RECURSIVE ScanDigits(_, _)
\* the magnitude (little-endian) of a run of decimal digits read after acc
ScanDigits(chars, acc) ==
    IF chars = <<>> THEN acc
    ELSE ScanDigits(Tail(chars), MulAdd(acc, 10, Head(chars) - 48))

\* new(big.Int).SetString(s, 10): an optional sign, then one or more
\* decimal digits and nothing else
SetString(s) ==
    LET signed == s # <<>> /\ Head(s) \in {43, 45}
        digits == IF signed THEN Tail(s) ELSE s
        abs == Reverse(ScanDigits(digits, <<>>))
    IN  IF digits = <<>> \/ \E i \in 1..Len(digits) : digits[i] \notin 48..57
        THEN [ok |-> FALSE, big |-> BigNil]
        ELSE [ok |-> TRUE, big |-> Big(signed /\ Head(s) = 45 /\ abs # <<>>, abs)]

ErrInvalidU128String == "invalid U128 string"
ErrInvalidU256String == "invalid U256 string"

U128FromString(s) ==
    LET r == SetString(s) IN
    IF ~r.ok THEN [ret |-> [U128Of(BigNil) EXCEPT !.e = ErrInvalidU128String], panic |-> NoPanic]
    ELSE [ret |-> U128Of(r.big), panic |-> NoPanic]

U256FromString(s) ==
    LET r == SetString(s) IN
    IF ~r.ok THEN [ret |-> [U256Of(BigNil) EXCEPT !.e = ErrInvalidU256String], panic |-> NoPanic]
    ELSE [ret |-> U256Of(r.big), panic |-> NoPanic]

---------------------------------------------------------------------------
(* Inputs *)

\* the decimal numeral with the given digits, as a string
Dec(ds) == [i \in 1..Len(ds) |-> 48 + ds[i]]

U8Values == {0, 127, 255}
U16Values == {Uint16(0), Uint16(4660), Uint16(65535)}
U32Values == {Uint32(0, 0), Uint32(4660, 22136), Uint32(65535, 65535)}
U64Values ==
    {Uint64(0, 0, 0, 0), Uint64(4660, 22136, 39612, 57072),
     Uint64(65535, 65535, 65535, 65535)}

\* 0, 1, 2^64-1, 2^128-1 and 2^256-1
BigValid128 == {BigZero, Big(FALSE, <<1>>), Big(FALSE, Repeat(255, 8)),
                Big(FALSE, Repeat(255, 16))}
BigValid256 == BigValid128 \cup {Big(FALSE, <<1>> \o Repeat(0, 16)),
                                 Big(FALSE, Repeat(255, 32))}
\* nil, -1, 2^128 and 2^256
BigInvalid128 == {BigNil, Big(TRUE, <<1>>), Big(FALSE, <<1>> \o Repeat(0, 16))}
BigInvalid256 == {BigNil, Big(TRUE, <<1>>), Big(FALSE, <<1>> \o Repeat(0, 32))}

\* 0, 1, 127, 128, 16383, 16384, 2^21-1, 2^21, 2^28-1, 2^28, 0x12345678,
\* 2^32-1
UlebValues ==
    {Uint32(0, 0), Uint32(0, 1), Uint32(0, 127), Uint32(0, 128),
     Uint32(0, 16383), Uint32(0, 16384), Uint32(31, 65535), Uint32(32, 0),
     Uint32(4095, 65535), Uint32(4096, 0), Uint32(4660, 22136),
     Uint32(65535, 65535)}

BytesValues == {<<>>, <<1, 2, 3>>, Repeat(7, 128)}
\* "", "hello", the UTF-8 bytes of a two-character CJK string
StringValues == {<<>>, <<104, 101, 108, 108, 111>>, <<228, 184, 150, 231, 149, 140>>}
FixedBytesValues == {<<>>, <<1, 2, 3, 4>>}

\* 0x1
AccountOne == AccountAddressOf(Repeat(0, AccountAddressLength - 1) \o <<1>>)

Types == {"U128", "U256", "AccountAddress"}

\* values of the composed types, valid and not
Marshalers ==
    {U128Of(BigNil), U128Of(Big(FALSE, <<1>>)), U128Of(Big(TRUE, <<1>>)),
     U256Of(Big(FALSE, Repeat(255, 32))), U256Of(Big(FALSE, <<1>> \o Repeat(0, 32))),
     AccountOne}

SequenceValues ==
    {<<>>, <<U128Of(Big(FALSE, <<1>>)), U128Of(Big(FALSE, Repeat(255, 16)))>>,
     <<AccountOne>>,
     <<U128Of(Big(TRUE, <<1>>)), U128Of(Big(FALSE, <<1>> \o Repeat(0, 16)))>>}

OptionValues ==
    {VNil, VPtr(U128Of(Big(FALSE, <<1>>))), VPtr(AccountOne),
     VPtr(U256Of(Big(TRUE, <<1>>)))}

SetErrorValues == {ErrTypeTagNil, ErrUnknownVariant}

\* 2^128-1 and 2^128 in decimal
DecMaxU128 ==
    Dec(<<3,4,0,2,8,2,3,6,6,9,2,0,9,3,8,4,6,3,4,6,3,3,7,4,6,0,7,4,3,1,7,6,8,2,1,1,4,5,5>>)
DecTwoTo128 ==
    Dec(<<3,4,0,2,8,2,3,6,6,9,2,0,9,3,8,4,6,3,4,6,3,3,7,4,6,0,7,4,3,1,7,6,8,2,1,1,4,5,6>>)
\* "0", "1", "256", 2^128-1, 2^128, "-1", "", "0x1"
DecimalStrings ==
    {Dec(<<0>>), Dec(<<1>>), Dec(<<2, 5, 6>>), DecMaxU128, DecTwoTo128,
     <<45, 49>>, <<>>, <<48, 120, 49>>}


\* byte strings a peer may send: the boundary cases of each decoder
WireInputs ==
    {<<>>} \cup {<<b>> : b \in {0, 1, 2, 127, 128, 255}} \cup
    {<<128, 0>>, <<128, 128, 0>>, <<255, 255, 255, 255, 15>>,
     <<128, 128, 128, 128, 16>>, <<255, 255, 255, 255, 127>>,
     <<128, 128, 128, 128, 128, 1>>, <<128, 128, 128>>,
     <<1, 2, 3>>, <<5, 104, 105>>, <<2, 104, 105, 9>>,
     <<1, 7>>, <<0, 9>>,
     Repeat(255, 16), Repeat(0, 16) \o <<9>>, <<1>> \o Repeat(3, 16),
     <<2>> \o Repeat(3, 16), <<1>> \o Repeat(0, 31) \o <<1>>,
     Repeat(1, 32), Repeat(0, 15)}

FixedLengths == {-1, 0, 1, 4, AccountAddressLength}

---------------------------------------------------------------------------
(* The program: a Serializer is written to, its bytes or a peer's bytes    *)
(* are handed to a Deserializer, and the Deserializer is read. The two     *)
(* objects share no state, so every interleaving of their calls equals     *)
(* the one in which the writes come first.                                 *)

Op(name) == [name |-> name, n |-> 0, t |-> ""]
OpN(name, n) == [name |-> name, n |-> n, t |-> ""]
OpT(name, t) == [name |-> name, n |-> 0, t |-> t]

\* no Deserializer has been constructed yet
NoDeserializer == NewDeserializer(<<>>)

Init ==
    /\ ser = NewSerializer
    /\ wlog = <<>>
    /\ des = NoDeserializer
    /\ phase = "encode"
    /\ matched = -1
    /\ op = Op("NewSerializer")
    /\ ret = Void
    /\ panic = NoPanic

\* a call of a Serializer method that leaves the Serializer as s1
Wrote(name, arg, s1) ==
    /\ phase = "encode"
    /\ panic = NoPanic
    /\ Len(wlog) < MaxWrites
    /\ ser' = s1
    /\ wlog' = Append(wlog, [call |-> name, arg |-> arg])
    /\ op' = Op(name)
    /\ ret' = Void
    /\ UNCHANGED <<des, phase, matched, panic>>

\* the arguments a write draws from: the whole domain for the first call
\* on a Serializer, one valid and one failing representative for a later
\* call (what a write appends does not depend on the bytes before it)
Args(all, later) == IF wlog = <<>> THEN all ELSE later

WriteBool ==
    \E v \in Args(BOOLEAN, {TRUE}) : Wrote("Bool", VBool(v), Serializer_Bool(ser, v))
WriteU8 ==
    \E v \in Args(U8Values, {255}) : Wrote("U8", VU8(v), Serializer_U8(ser, v))
WriteU16 ==
    \E v \in Args(U16Values, {Uint16(4660)}) :
        Wrote("U16", VU16(v), Serializer_U16(ser, v))
WriteU32 ==
    \E v \in Args(U32Values, {Uint32(4660, 22136)}) :
        Wrote("U32", VU32(v), Serializer_U32(ser, v))
WriteU64 ==
    \E v \in Args(U64Values, {Uint64(4660, 22136, 39612, 57072)}) :
        Wrote("U64", VU64(v), Serializer_U64(ser, v))
WriteU128 ==
    \E v \in Args(BigValid128 \cup BigInvalid128,
                  {Big(FALSE, <<1>>), Big(TRUE, <<1>>)}) :
        Wrote("U128", VBig(v), Serializer_U128(ser, v))
WriteU256 ==
    \E v \in Args(BigValid256 \cup BigInvalid256,
                  {Big(FALSE, Repeat(255, 32)), BigNil}) :
        Wrote("U256", VBig(v), Serializer_U256(ser, v))
WriteUleb128 ==
    \E v \in Args(UlebValues, {Uint32(0, 128)}) :
        Wrote("Uleb128", VU32(v), Serializer_Uleb128(ser, v))
WriteBytes ==
    \E v \in Args(BytesValues, {<<1, 2, 3>>}) :
        Wrote("Bytes", VBytes(v), Serializer_Bytes(ser, v))
WriteString ==
    \E v \in Args(StringValues, {<<104, 101, 108, 108, 111>>}) :
        Wrote("String", VString(v), Serializer_String(ser, v))
WriteFixedBytes ==
    \E v \in Args(FixedBytesValues, {<<1, 2, 3, 4>>}) :
        Wrote("FixedBytes", VBytes(v), Serializer_FixedBytes(ser, v))
WriteStruct ==
    \E v \in Args(Marshalers, {AccountOne, U128Of(Big(TRUE, <<1>>))}) :
        Wrote("Struct", v, Serializer_Struct(ser, v))
WriteSequence ==
    \E v \in Args(SequenceValues, {<<AccountOne>>}) :
        Wrote("Sequence", VSlice(v), SerializeSequence(ser, v))
WriteOption ==
    \E v \in Args(OptionValues, {VNil, VPtr(U128Of(Big(FALSE, <<1>>)))}) :
        Wrote("Option", v, SerializeOption(ser, v))
WriteSetError ==
    \E e \in Args(SetErrorValues, {ErrUnknownVariant}) :
        Wrote("SetError", VError(e), Serializer_SetError(ser, e))

\* s.ToBytes()
CallToBytes ==
    /\ phase = "encode"
    /\ panic = NoPanic
    /\ op' = Op("ToBytes")
    /\ ret' = VBytesError(Serializer_ToBytes(ser), NoError)
    /\ UNCHANGED <<ser, wlog, des, phase, matched, panic>>

\* a constructor of a typed value is called; c is its outcome
Built(name, c) ==
    /\ phase = "encode"
    /\ wlog = <<>>
    /\ panic = NoPanic
    /\ op' = Op(name)
    /\ ret' = c.ret
    /\ panic' = c.panic
    /\ phase' = "built"
    /\ UNCHANGED <<ser, wlog, des, matched>>

BuildU128FromBigInt ==
    \E v \in BigValid128 \cup BigInvalid128 :
        Built("NewU128FromBigInt", NewU128FromBigInt(v))
BuildU256FromBigInt ==
    \E v \in BigValid256 \cup BigInvalid256 :
        Built("NewU256FromBigInt", NewU256FromBigInt(v))
BuildU128FromString ==
    \E s \in DecimalStrings : Built("U128FromString", U128FromString(s))
BuildU256FromString ==
    \E s \in DecimalStrings : Built("U256FromString", U256FromString(s))
\* a value written as a literal: U128{}, AccountOne, ...
BuildLiteral ==
    \E v \in Marshalers : Built("literal", [ret |-> v, panic |-> NoPanic])

\* bcs.Serialize(v) of the value just built (a failed parse returns no
\* value to serialize)
CallSerialize ==
    /\ phase = "built"
    /\ panic = NoPanic
    /\ ret.e = NoError
    /\ \E r \in {Serialize(ret)} :
        /\ ser' = r.s
        /\ ret' = r.ret
        /\ panic' = r.panic
    /\ wlog' = <<[call |-> "Serialize", arg |-> ret]>>
    /\ op' = Op("Serialize")
    /\ phase' = "serialized"
    /\ UNCHANGED <<des, matched>>


\* the bytes of the Serializer (a nil slice holds no bytes)
Output == Serializer_ToBytes(ser).bytes

\* what a Deserializer may be constructed over: a peer's bytes, or the
\* bytes of the writes made so far
DataChoices ==
    IF wlog = <<>> THEN {[data |-> w, out |-> FALSE] : w \in WireInputs}
    ELSE IF Len(wlog) <= MaxRoundTrip THEN {[data |-> Output, out |-> TRUE]}
    ELSE {}

\* the read o is the mirror of the logged write w
Mirrors(o, w) ==
    CASE o.name \in {"FixedBytes", "FixedBytesNoCopy"} ->
            w.call = "FixedBytes" /\ o.n = Len(w.arg.s)
      [] o.name \in {"Struct", "Deserialize"} ->
            w.call \in {"Struct", "Serialize"} /\ w.arg.k = o.t
      [] o.name = "Sequence" ->
            w.call = "Sequence"
            /\ \A i \in 1..Len(w.arg.items) : w.arg.items[i].k = o.t
      [] o.name = "Option" ->
            w.call = "Option" /\ (w.arg.k = "ptr" => w.arg.items[1].k = o.t)
      [] OTHER -> w.call = o.name

CallNewDeserializer ==
    /\ phase \in {"encode", "serialized"}
    /\ panic = NoPanic
    /\ \E c \in DataChoices :
        /\ des' = NewDeserializer(c.data)
        /\ matched' = IF c.out /\ ser.err = NoError THEN 0 ELSE -1
    /\ phase' = "decode"
    /\ op' = Op("NewDeserializer")
    /\ ret' = Void
    /\ UNCHANGED <<ser, wlog, panic>>

\* a call on the Deserializer with outcome r. Over a peer's bytes every
\* sequence of calls is followed; over the Serializer's bytes, the sequences
\* that mirror the writes and their first departure from them.
Read(o, r) ==
    /\ phase = "decode"
    /\ panic = NoPanic
    /\ wlog = <<>> \/ matched >= 0
    /\ des' = r.d
    /\ ret' = r.ret
    /\ panic' = r.panic
    /\ op' = o
    /\ matched' = IF matched >= 0 /\ matched < Len(wlog)
                     /\ Mirrors(o, wlog[matched + 1])
                  THEN matched + 1 ELSE -1
    /\ UNCHANGED <<ser, wlog, phase>>

ReadBool == Read(Op("Bool"), Deserializer_Bool(des))
ReadU8 == Read(Op("U8"), Deserializer_U8(des))
ReadU16 == Read(Op("U16"), Deserializer_U16(des))
ReadU32 == Read(Op("U32"), Deserializer_U32(des))
ReadU64 == Read(Op("U64"), Deserializer_U64(des))
ReadU128 == Read(Op("U128"), Deserializer_U128(des))
ReadU256 == Read(Op("U256"), Deserializer_U256(des))
ReadUleb128 == Read(Op("Uleb128"), Deserializer_Uleb128(des))
ReadBytes == Read(Op("Bytes"), Deserializer_Bytes(des))
ReadString == Read(Op("String"), Deserializer_String(des))
ReadFixedBytes ==
    \E n \in FixedLengths :
        Read(OpN("FixedBytes", n), Deserializer_FixedBytes(des, n))
ReadFixedBytesNoCopy ==
    \E n \in FixedLengths :
        Read(OpN("FixedBytesNoCopy", n), Deserializer_FixedBytesNoCopy(des, n))
ReadStruct ==
    \E t \in Types : Read(OpT("Struct", t), Deserializer_Struct(des, t))
ReadSequence ==
    \E t \in Types : Read(OpT("Sequence", t), DeserializeSequence(des, t))
ReadOption ==
    \E t \in Types : Read(OpT("Option", t), DeserializeOption(des, t))
ReadSetError ==
    \E e \in SetErrorValues :
        Read(Op("SetError"), Return(Deserializer_SetError(des, e), Void))

\* bcs.Deserialize(data, v)
CallDeserialize ==
    /\ phase \in {"encode", "serialized"}
    /\ panic = NoPanic
    /\ \E c \in DataChoices, t \in Types :
        \E r \in {Deserialize(c.data, t)} :
        /\ des' = r.d
        /\ ret' = r.ret
        /\ panic' = r.panic
        /\ op' = OpT("Deserialize", t)
        /\ matched' = IF c.out /\ ser.err = NoError /\ Len(wlog) = 1
                         /\ Mirrors(OpT("Deserialize", t), wlog[1])
                      THEN 1 ELSE -1
    /\ phase' = "deserialized"
    /\ UNCHANGED <<ser, wlog>>

Next ==
    \/ WriteBool \/ WriteU8 \/ WriteU16 \/ WriteU32 \/ WriteU64
    \/ WriteU128 \/ WriteU256 \/ WriteUleb128 \/ WriteBytes \/ WriteString
    \/ WriteFixedBytes \/ WriteStruct \/ WriteSequence \/ WriteOption
    \/ WriteSetError \/ CallToBytes
    \/ BuildU128FromBigInt \/ BuildU256FromBigInt \/ BuildU128FromString
    \/ BuildU256FromString \/ BuildLiteral \/ CallSerialize
    \/ CallNewDeserializer \/ CallDeserialize
    \/ ReadBool \/ ReadU8 \/ ReadU16 \/ ReadU32 \/ ReadU64 \/ ReadU128
    \/ ReadU256 \/ ReadUleb128 \/ ReadBytes \/ ReadString \/ ReadFixedBytes
    \/ ReadFixedBytesNoCopy \/ ReadStruct \/ ReadSequence \/ ReadOption
    \/ ReadSetError

Spec == Init /\ [][Next]_vars


---------------------------------------------------------------------------
(* Properties *)

\* the step is a call on the Deserializer
ReadStep == phase = "decode" /\ phase' = "decode" /\ panic = NoPanic

\* the step is a call of a Serializer method
WriteStep ==
    phase = "encode" /\ phase' = "encode" /\ Len(wlog') = Len(wlog) + 1

\* the bytes b hold the word v least significant byte first: bit j of v is
\* bit (j mod 8) of byte (j div 8)
IsLittleEndian(b, v) ==
    /\ 8 * Len(b) = Len(v)
    /\ \A j \in 0..(Len(v) - 1) :
          (b[(j \div 8) + 1] \div Pow2(j % 8)) % 2 = v[j + 1]

\* the number of bits of v up to its highest set bit
BitLength(v) ==
    IF IsZero(v) THEN 0
    ELSE CHOOSE i \in 1..Len(v) : v[i] = 1 /\ \A j \in (i + 1)..Len(v) : v[j] = 0

\* the standard ULEB128 encoding of v, stated byte by byte
IsUleb128Of(b, v) ==
    LET groups == (BitLength(v) + 6) \div 7
        k == IF groups = 0 THEN 1 ELSE groups
    IN  /\ Len(b) = k
        /\ k <= 5
        /\ \A i \in 0..(k - 1) :
              /\ \A j \in 0..6 :
                    (b[i + 1] \div Pow2(j)) % 2
                        = (IF 7 * i + j < 32 THEN v[7 * i + j + 1] ELSE 0)
              /\ (b[i + 1] >= 128) = (i < k - 1)

\* the call and argument a single write was made with
OneWrite(call) == Len(wlog) = 1 /\ wlog[1].call = call /\ ser.err = NoError

PrimitiveCalls ==
    {"Bool", "U8", "U16", "U32", "U64", "U128", "U256", "Bytes", "String",
     "FixedBytes"}

\* C1: a primitive written by the Serializer is read back by the matching
\* Deserializer call with no error and no byte left over; a fixed-width
\* integer is written in width/8 bytes, least significant byte first, and
\* bytes and strings as uleb128(length) followed by the raw bytes.
C1_RoundTripPrimitives ==
    /\ (phase = "decode" /\ matched >= 1 /\ wlog[matched].call \in PrimitiveCalls)
          => /\ panic = NoPanic
             /\ des.err = NoError
             /\ ret = wlog[matched].arg
             /\ (matched = Len(wlog) => Remaining(des) = 0)
    /\ \A c \in {"U16", "U32", "U64"} :
          OneWrite(c) => IsLittleEndian(ser.buf, wlog[1].arg.s)
    /\ OneWrite("U8") => ser.buf = <<wlog[1].arg.n>>
    /\ OneWrite("Bool") => ser.buf = <<IF wlog[1].arg.b THEN 1 ELSE 0>>
    /\ \A c \in {"Bytes", "String"} :
          OneWrite(c) =>
              \E k \in 1..5 :
                  /\ Len(ser.buf) = k + Len(wlog[1].arg.s)
                  /\ IsUleb128Of(SubSeq(ser.buf, 1, k),
                                 Uint32OfInt(Len(wlog[1].arg.s)))
                  /\ SubSeq(ser.buf, k + 1, Len(ser.buf)) = wlog[1].arg.s
    /\ OneWrite("FixedBytes") => ser.buf = wlog[1].arg.s

\* the maximum u128, written and read back
C1_Witness ==
    /\ phase = "decode"
    /\ matched = 1
    /\ op.name = "U128"
    /\ ret.big = Big(FALSE, Repeat(255, 16))
    /\ Remaining(des) = 0

\* C2: Serializer.Uleb128 writes the standard ULEB128 encoding of a uint32
\* (at most five bytes, seven bits a byte, the top bit set on all but the
\* last) and Deserializer.Uleb128 reads the value back from those bytes
\* with no error and no byte left over.
C2_Uleb128RoundTrip ==
    /\ OneWrite("Uleb128") => IsUleb128Of(ser.buf, wlog[1].arg.s)
    /\ (phase = "decode" /\ matched >= 1 /\ wlog[matched].call = "Uleb128")
          => /\ panic = NoPanic
             /\ des.err = NoError
             /\ ret = wlog[matched].arg
             /\ (matched = Len(wlog) => Remaining(des) = 0)

\* 2^32-1, which needs five bytes, written and read back
C2_Witness ==
    /\ phase = "decode"
    /\ matched = 1
    /\ op.name = "Uleb128"
    /\ ret.s = Uint32(65535, 65535)
    /\ des.data = <<255, 255, 255, 255, 15>>
    /\ Remaining(des) = 0


\* the bytes a call on the Deserializer consumed in the step
Consumed == SubSeq(des.data, des.offset + 1, des'.offset)

\* the step is a call of Deserializer.Uleb128 on a Deserializer with no
\* error latched that returns with no error latched
Uleb128Decoded ==
    /\ ReadStep
    /\ op'.name = "Uleb128"
    /\ des.err = NoError
    /\ des'.err = NoError
    /\ panic' = NoPanic

\* C3: whenever Deserializer.Uleb128 decodes an input without error, the
\* bytes it consumed are exactly the bytes Serializer.Uleb128 writes for
\* the value returned.
C3_Uleb128Unique ==
    [][Uleb128Decoded => Consumed = Uleb128Bytes(ret'.s)]_vars

RECURSIVE GroupBits(_)
\* sum((b_i & 0x7f) * 2^(7i)) in binary, least significant bit first
GroupBits(bytes) ==
    IF bytes = <<>> THEN <<>>
    ELSE BitsOf(bytes[1] % 128, 7) \o GroupBits(Tail(bytes))

\* a and b are the same number (bits beyond the length of a word are 0)
SameNumber(a, b) ==
    LET n == IF Len(a) > Len(b) THEN Len(a) ELSE Len(b)
        bit(w, i) == IF i <= Len(w) THEN w[i] ELSE 0
    IN  \A i \in 1..n : bit(a, i) = bit(b, i)

\* C4: Deserializer.Uleb128 either latches an error or returns the exact
\* mathematical value sum((b_i & 0x7f) * 2^(7i)) of the bytes it consumed;
\* an input whose value exceeds 2^32-1 latches the overflow error.
C4_Uleb128ExactOrOverflow ==
    [][(ReadStep /\ op'.name = "Uleb128" /\ des.err = NoError
            /\ panic' = NoPanic)
          => /\ des'.err = NoError => SameNumber(GroupBits(Consumed), ret'.s)
             /\ BitLength(GroupBits(Consumed)) > 32 => des'.err = ErrUlebOverflow
      ]_vars

ZeroRet(o) ==
    CASE o.name = "Bool" -> VBool(FALSE)
      [] o.name = "U8" -> VU8(0)
      [] o.name = "U16" -> VU16(Zero(16))
      [] o.name = "U32" -> VU32(Zero(32))
      [] o.name = "U64" -> VU64(Zero(64))
      [] o.name = "Uleb128" -> VU32(Zero(32))
      [] o.name = "String" -> VString(<<>>)
      [] o.name = "Struct" -> ZeroValue(o.t)
      [] o.name = "SetError" -> Void
      [] OTHER -> VNil

\* the input ends inside a uleb128: every byte left has its continuation
\* bit set and fewer than five are left
EndsInsideUleb128(d) ==
    /\ Remaining(d) < 5
    /\ \A i \in (d.offset + 1)..Len(d.data) : d.data[i] >= 128

\* the bytes a fixed-size read needs
Needs(o) ==
    CASE o.name \in {"Bool", "U8"} -> 1
      [] o.name = "U16" -> 2
      [] o.name = "U32" -> 4
      [] o.name = "U64" -> 8
      [] o.name = "U128" -> 16
      [] o.name = "U256" -> 32
      [] o.name \in {"FixedBytes", "FixedBytesNoCopy"} -> o.n
      [] OTHER -> -1

\* fewer bytes remain in d than the read o needs
Truncated(o, d) ==
    \/ Needs(o) >= 0 /\ Remaining(d) < Needs(o)
    \/ o.name = "Uleb128" /\ EndsInsideUleb128(d)
    \/ /\ o.name \in {"Bytes", "String"}
       /\ \/ EndsInsideUleb128(d)
          \/ LET l == Deserializer_Uleb128(d) IN
             l.d.err = NoError /\ Remaining(l.d) < IntOfUint32(l.ret.s)

\* C6: a read on a Deserializer with no error latched that needs more bytes
\* than remain latches the 'unexpected end of input' error, returns the
\* zero/nil value and reads nothing past the end of the input (no panic,
\* the offset stays within the input).
C6_TruncationDetected ==
    [][(ReadStep /\ des.err = NoError /\ Truncated(op', des))
          => /\ panic' = NoPanic
             /\ des'.err = ErrEndOfInput
             /\ ret' = ZeroRet(op')
             /\ des'.offset <= Len(des.data)
             /\ des'.data = des.data
      ]_vars

\* Bytes over a length prefix of 5 followed by two bytes only
C6_Witness ==
    /\ phase = "decode"
    /\ op.name = "Bytes"
    /\ des.data = <<5, 104, 105>>
    /\ des.offset = 1
    /\ des.err = ErrEndOfInput
    /\ ret = VNil

\* C7: once an error is latched on a Deserializer, every call returns the
\* zero/nil value and leaves the offset and the error as they were.
C7_DeserializerLatched ==
    [][(ReadStep /\ des.err # NoError)
          => /\ panic' = NoPanic
             /\ ret' = ZeroRet(op')
             /\ des' = des
      ]_vars

\* DeserializeSequence called after an invalid boolean was read
C7_Witness ==
    /\ phase = "decode"
    /\ op.name = "Sequence"
    /\ des.err = ErrInvalidBool
    /\ des.offset = 1
    /\ ret = VNil

\* C8: once an error is latched on a Serializer, every write leaves the
\* buffer and the error as they were, ToBytes returns nil, and
\* bcs.Serialize returns nil with the error latched first.
C8_SerializerLatched ==
    /\ [][(WriteStep /\ ser.err # NoError) => ser' = ser]_vars
    /\ []((op.name = "ToBytes" /\ ser.err # NoError) => ret.k = "nil")
    /\ []((phase = "serialized" /\ ser.err # NoError)
             => ret.k = "nil" /\ ret.e = ser.err)

\* a sequence whose first element is negative latched its error after the
\* element count was written; the U64 written next changed nothing
C8_Witness ==
    /\ phase = "encode"
    /\ Len(wlog) = 2
    /\ wlog[1].call = "Sequence"
    /\ wlog[2].call = "U64"
    /\ ser.err = ErrU128Negative
    /\ ser.buf # <<>>


\* v is nil, negative or at least 2^(8n): the magnitude of a big.Int
\* carries no leading zero byte, so it is at least 2^(8n) exactly when it
\* is longer than n bytes
OutOfRange(v, n) == v.isnil \/ v.neg \/ Len(v.abs) > n

\* v in n bytes, least significant byte first, zero-padded on the high end
LittleEndianOf(v, n) ==
    [i \in 1..n |-> IF i <= Len(v.abs) THEN v.abs[Len(v.abs) + 1 - i] ELSE 0]

U128Errors == {ErrU128Nil, ErrU128Negative, ErrU128TooLarge}
U256Errors == {ErrU256Nil, ErrU256Negative, ErrU256TooLarge}

\* the step is the call Serializer.U128(v) or Serializer.U256(v), as call
\* names, on a Serializer with no error latched; it does what is said of an
\* integer of n bytes
BigWritten(call, n, errors) ==
    (WriteStep /\ ser.err = NoError /\ wlog'[Len(wlog')].call = call) =>
        LET v == wlog'[Len(wlog')].arg.big IN
        /\ panic' = NoPanic
        /\ IF OutOfRange(v, n)
           THEN ser'.err \in errors /\ ser'.buf = ser.buf
           ELSE ser'.err = NoError /\ ser'.buf = ser.buf \o LittleEndianOf(v, n)

\* bcs.Serialize of a U128 or U256 holding a non-nil big.Int (as the
\* constructors build them) returned what is said of an integer of n bytes
BigSerialized(k, n, errors) ==
    (phase = "serialized" /\ wlog[1].arg.k = k /\ ~wlog[1].arg.big.isnil) =>
        LET v == wlog[1].arg.big IN
        /\ panic = NoPanic
        /\ IF OutOfRange(v, n)
           THEN ret.k = "nil" /\ ret.e \in errors /\ ser.buf = <<>>
           ELSE ret.k = "[]byte" /\ ret.e = NoError
                /\ ret.s = LittleEndianOf(v, n)

\* C9: Serializer.U128(v) / U256(v) latch an encoding error and append
\* nothing when v is nil, negative or at least 2^128 / 2^256, and otherwise
\* append exactly 16 / 32 bytes, little-endian and zero-padded on the high
\* end, without a panic either way; bcs.Serialize of a U128 / U256 built by
\* NewU128FromBigInt or U128FromString (or their U256 twins) does the same.
C9_BigIntegersChecked ==
    /\ [][BigWritten("U128", 16, U128Errors)]_vars
    /\ [][BigWritten("U256", 32, U256Errors)]_vars
    /\ [](BigSerialized("U128", 16, U128Errors))
    /\ [](BigSerialized("U256", 32, U256Errors))

\* a U128 holding -1 was built (NewU128FromBigInt(-1), U128FromString("-1"))
\* and bcs.Serialize refused it
C9_Witness ==
    /\ phase = "serialized"
    /\ wlog[1].arg = U128Of(Big(TRUE, <<1>>))
    /\ ret.k = "nil"
    /\ ret.e = ErrU128Negative
    /\ ser.buf = <<>>

---------------------------------------------------------------------------
(* Flag bytes: every value of the byte Deserializer.Bool and               *)
(* DeserializeOption read first                                            *)

\* what follows the flag byte: nothing, or the sixteen bytes of a u128
FlagTails == {<<>>, Repeat(3, 16)}

\* NewDeserializer over a flag byte of any value
CallNewDeserializerOverFlag ==
    /\ phase = "encode"
    /\ wlog = <<>>
    /\ panic = NoPanic
    /\ \E b \in 0..255, tail \in FlagTails :
        des' = NewDeserializer(<<b>> \o tail)
    /\ matched' = -1
    /\ phase' = "decode"
    /\ op' = Op("NewDeserializer")
    /\ ret' = Void
    /\ UNCHANGED <<ser, wlog, panic>>

NextFlagBytes ==
    \/ WriteBool \/ WriteOption
    \/ CallNewDeserializer \/ CallNewDeserializerOverFlag
    \/ ReadBool \/ ReadOption \/ ReadU8

SpecFlagBytes == Init /\ [][NextFlagBytes]_vars

\* the step is the call named on a Deserializer with no error latched and
\* at least one byte left
FlagRead(name) ==
    ReadStep /\ op'.name = name /\ des.err = NoError /\ Remaining(des) >= 1

\* the step read the flag byte as Deserializer.Bool is said to
BoolStrict ==
    FlagRead("Bool") =>
        LET b == des.data[des.offset + 1] IN
        /\ panic' = NoPanic
        /\ des'.offset = des.offset + 1
        /\ b = 0 => des'.err = NoError /\ ret' = VBool(FALSE)
        /\ b = 1 => des'.err = NoError /\ ret' = VBool(TRUE)
        /\ b \in 2..255 => des'.err = ErrInvalidBool /\ ret' = VBool(FALSE)

\* the step read the presence byte as DeserializeOption is said to
OptionStrict ==
    FlagRead("Option") =>
        LET b == des.data[des.offset + 1]
            item == UnmarshalBCS(Advance(des, 1), op'.t)
        IN  /\ panic' = NoPanic
            /\ b = 0 => des' = Advance(des, 1) /\ ret' = VNil
            /\ b = 1 => /\ des' = item.d
                        /\ ret' = IF item.d.err = NoError THEN VPtr(item.ret)
                                  ELSE VNil
            /\ b \in 2..255 => /\ des'.err = ErrInvalidOption
                               /\ des'.offset = des.offset + 1
                               /\ ret' = VNil

\* C10: Deserializer.Bool accepts only the bytes 0 (false) and 1 (true),
\* DeserializeOption only the presence bytes 0 (nil) and 1 (the value
\* follows); every byte 2..255 latches an error and yields false / nil; an
\* option written by SerializeOption, absent or present, is read back as
\* written.
C10_StrictFlagBytes ==
    /\ [][BoolStrict]_vars
    /\ [][OptionStrict]_vars
    /\ []((phase = "decode" /\ matched >= 1
              /\ wlog[matched].call \in {"Bool", "Option"})
            => /\ panic = NoPanic
               /\ des.err = NoError
               /\ ret = wlog[matched].arg
               /\ (matched = Len(wlog) => Remaining(des) = 0))

\* the presence byte 200 was refused by DeserializeOption
C10_Witness ==
    /\ phase = "decode"
    /\ op.name = "Option"
    /\ des.data = <<200>> \o Repeat(3, 16)
    /\ des.offset = 1
    /\ des.err = ErrInvalidOption
    /\ ret = VNil

---------------------------------------------------------------------------
(* TypeTag: BCS encoding, printer and parser *)

MaxTagDepth == 2

\* the strings "coin", "Coin", "aptos_coin" and "AptosCoin"
StrCoinModule == <<99, 111, 105, 110>>
StrCoinName == <<67, 111, 105, 110>>
StrAptosCoinModule == <<97, 112, 116, 111, 115, 95, 99, 111, 105, 110>>
StrAptosCoinName == <<65, 112, 116, 111, 115, 67, 111, 105, 110>>

\* the address 0x00..00a1b2
AccountA1B2 == AccountAddressOf(Repeat(0, AccountAddressLength - 2) \o <<161, 178>>)
AccountZero == AccountAddressOf(Repeat(0, AccountAddressLength))

\* AptosCoinTypeTag: 0x1::aptos_coin::AptosCoin
AptosCoinTypeTag ==
    TypeTagOf(StructTag(AccountOne.s, StrAptosCoinModule, StrAptosCoinName, <<>>))

\* u8 and address, the leaves of the nested tags
LeafTags == {TypeTagOf(PrimitiveTag("U8Tag")), TypeTagOf(PrimitiveTag("AddressTag"))}

RECURSIVE TagsOfDepth(_)
\* the tags nested to depth n: vector<T>, and 0x1::coin::Coin with no, one
\* or two type parameters (the second one a leaf)
TagsOfDepth(n) ==
    IF n = 0 THEN LeafTags
    ELSE LET T == TagsOfDepth(n - 1)
             Coin(ps) == TypeTagOf(StructTag(AccountOne.s, StrCoinModule, StrCoinName, ps))
         IN  T \cup {TypeTagOf(VectorTag(e)) : e \in T}
               \cup {Coin(<<>>)}
               \cup {Coin(<<x>>) : x \in T}
               \cup {Coin(<<x, y>>) : x \in T, y \in LeafTags}

\* TypeTags with a value everywhere
TypeTags ==
    {TypeTagOf(PrimitiveTag(name)) : name \in PrimitiveTagNames}
      \cup TagsOfDepth(MaxTagDepth)
      \cup {AptosCoinTypeTag,
            TypeTagOf(StructTag(AccountA1B2.s, StrCoinModule, StrCoinName,
                                <<AptosCoinTypeTag, AptosCoinTypeTag,
                                  TypeTagOf(VectorTag(AptosCoinTypeTag))>>)),
            TypeTagOf(StructTag(AccountZero.s, StrCoinModule, StrCoinName, <<>>))}

\* TypeTags with a nil Value somewhere
NilTypeTags ==
    {TypeTagNil, TypeTagOf(VectorTag(TypeTagNil)),
     TypeTagOf(StructTag(AccountOne.s, StrCoinModule, StrCoinName,
                         <<TypeTagOf(PrimitiveTag("U8Tag")), TypeTagNil>>))}

\* the discriminants a peer may send: the known ones, the next ones, and
\* ones that differ from a known one by a multiple of 256
WireDiscriminants ==
    {Uint32(0, n) : n \in 0..12}
      \cup {Uint32(0, 255), Uint32(0, 256), Uint32(0, 257), Uint32(0, 262),
            Uint32(0, 266), Uint32(0, 267), Uint32(0, 512), Uint32(1, 0),
            Uint32(1, 10), Uint32(65535, 65280), Uint32(65535, 65535)}

\* what may follow a discriminant: nothing, a u8 tag, the payload of
\* 0x1::coin::Coin<u8>
WirePayloads ==
    {<<>>, <<1>>,
     AccountOne.s \o <<4>> \o StrCoinModule \o <<4>> \o StrCoinName \o <<1, 1>>}

TypeTagWireInputs ==
    {Uleb128Bytes(x) \o p : x \in WireDiscriminants, p \in WirePayloads}
      \cup {<<>>, <<128>>, <<6, 6, 11>>, <<6, 7>>}

BuildTypeTag ==
    \E t \in TypeTags \cup NilTypeTags :
        Built("literal", [ret |-> t, panic |-> NoPanic])

\* bcs.Deserialize(data, &TypeTag{}) over a peer's bytes or over the bytes
\* bcs.Serialize returned
CallDeserializeTypeTag ==
    /\ phase \in {"encode", "serialized"}
    /\ panic = NoPanic
    /\ \E data \in (IF phase = "encode" THEN TypeTagWireInputs
                    ELSE IF ser.err = NoError THEN {Output} ELSE {}) :
        \E r \in {Deserialize(data, "TypeTag")} :
        /\ des' = r.d
        /\ ret' = r.ret
        /\ panic' = r.panic
    /\ IF wlog = <<>> THEN TRUE ELSE wlog[1].arg.k = "TypeTag"
    /\ matched' = IF phase = "serialized" THEN 1 ELSE -1
    /\ op' = OpT("Deserialize", "TypeTag")
    /\ phase' = "deserialized"
    /\ UNCHANGED <<ser, wlog>>

NextTypeTag ==
    \/ BuildTypeTag
    \/ CallSerialize
    \/ CallDeserializeTypeTag

SpecTypeTag == Init /\ [][NextTypeTag]_vars

\* the discriminant at the head of the bytes a Deserializer was given
DecodedDiscriminant(data) == Deserializer_Uleb128(NewDeserializer(data))

\* C11: TypeTag.UnmarshalBCS latches an error for every decoded
\* discriminant outside 0..10, and yields a variant only for 0..10.
C11_UnknownDiscriminantRefused ==
    (phase = "deserialized" /\ op.t = "TypeTag" /\ panic = NoPanic) =>
        LET l == DecodedDiscriminant(des.data) IN
        (l.d.err = NoError /\ \A n \in 0..10 : l.ret.s # Uint32(0, n))
          => /\ des.err # NoError
             /\ ret.e # NoError
             /\ ret.items[1] = TypeTagNil

\* the discriminant of each variant
DiscriminantOf ==
    [BoolTag |-> 0, U8Tag |-> 1, U64Tag |-> 2, U128Tag |-> 3, AddressTag |-> 4,
     SignerTag |-> 5, VectorTag |-> 6, StructTag |-> 7, U16Tag |-> 8,
     U32Tag |-> 9, U256Tag |-> 10]

RECURSIVE TypeTagLayout(_)
RECURSIVE TypeTagsLayout(_)
\* uleb128(discriminant) followed by the payload of the variant; every
\* length of the tags modelled fits one uleb128 byte
TypeTagLayout(t) ==
    LET v == t.items[1] IN
    <<DiscriminantOf[v.k]>> \o
    (CASE v.k = "VectorTag" -> TypeTagLayout(v.items[1])
       [] v.k = "StructTag" ->
            v.s \o <<Len(v.items[1].s)>> \o v.items[1].s
                \o <<Len(v.items[2].s)>> \o v.items[2].s
                \o <<Len(v.items[3].items)>> \o TypeTagsLayout(v.items[3].items)
       [] OTHER -> <<>>)

TypeTagsLayout(ts) ==
    IF ts = <<>> THEN <<>> ELSE TypeTagLayout(Head(ts)) \o TypeTagsLayout(Tail(ts))

\* C12: bcs.Serialize of a TypeTag with a value everywhere is
\* uleb128(discriminant) followed by the variant's payload, and
\* bcs.Deserialize of those bytes yields an equal TypeTag with no error and
\* no trailing byte.
C12_TypeTagRoundTrip ==
    /\ (phase = "serialized" /\ wlog[1].arg \in TypeTags)
          => /\ ret.e = NoError
             /\ ret.k = "[]byte"
             /\ ret.s = TypeTagLayout(wlog[1].arg)
    /\ (phase = "deserialized" /\ matched = 1)
          => /\ wlog[1].arg \in TypeTags
             /\ panic = NoPanic
             /\ des.data = TypeTagLayout(wlog[1].arg)
             /\ ret.e = NoError
             /\ ret.items[1] = wlog[1].arg
             /\ Remaining(des) = 0

\* 0xa1b2::coin::Coin<AptosCoin, AptosCoin, vector<AptosCoin>> came back
C12_Witness ==
    /\ phase = "deserialized"
    /\ matched = 1
    /\ ret.e = NoError
    /\ ret.items[1] =
          TypeTagOf(StructTag(AccountA1B2.s, StrCoinModule, StrCoinName,
                              <<AptosCoinTypeTag, AptosCoinTypeTag,
                                TypeTagOf(VectorTag(AptosCoinTypeTag))>>))

---------------------------------------------------------------------------
(* Text: strings are sequences of character codes (ASCII)                  *)

\* strings.HasPrefix, strings.HasSuffix
HasPrefix(s, prefix) ==
    Len(s) >= Len(prefix) /\ SubSeq(s, 1, Len(prefix)) = prefix
HasSuffix(s, suffix) ==
    Len(s) >= Len(suffix) /\ SubSeq(s, Len(s) - Len(suffix) + 1, Len(s)) = suffix

\* strings.TrimPrefix
TrimPrefix(s, prefix) ==
    IF HasPrefix(s, prefix) THEN SubSeq(s, Len(prefix) + 1, Len(s)) ELSE s

\* strings.Index: the 0-based index of the first occurrence of sep, or -1
Index(s, sep) ==
    LET at == {i \in 0..(Len(s) - Len(sep)) : SubSeq(s, i + 1, i + Len(sep)) = sep}
    IN  IF at = {} THEN -1 ELSE CHOOSE i \in at : \A j \in at : i <= j

\* s[i:j] with 0-based i and j
Slice(s, i, j) == SubSeq(s, i + 1, j)

\* the white space strings.TrimSpace strips (ASCII): \t \n \v \f \r and
\* the space
WhiteSpace == {9, 10, 11, 12, 13, 32}

\* variant of TrimSpace that strips nothing
TrimSpaceNone(s) == s

\* strings.TrimSpace, as ParseTypeTag and parseTypeParams call it: what is
\* left between the first and the last character that is not white space
TrimSpace(s) ==
    LET keep == {i \in 1..Len(s) : s[i] \notin WhiteSpace} IN
    IF keep = {} THEN <<>>
    ELSE SubSeq(s, CHOOSE i \in keep : \A j \in keep : i <= j,
                   CHOOSE i \in keep : \A j \in keep : i >= j)

RECURSIVE SplitN(_, _, _)
\* strings.SplitN(s, sep, n) for n >= 1 and a non-empty sep: at most n
\* substrings, the last one the unsplit remainder
SplitN(s, sep, n) ==
    LET i == Index(s, sep) IN
    IF n = 1 \/ i = -1 THEN <<s>>
    ELSE <<Slice(s, 0, i)>> \o SplitN(Slice(s, i + Len(sep), Len(s)), sep, n - 1)

RECURSIVE Join(_, _)
\* strings.Join
Join(elems, sep) ==
    IF elems = <<>> THEN <<>>
    ELSE IF Len(elems) = 1 THEN elems[1]
    ELSE elems[1] \o sep \o Join(Tail(elems), sep)

---------------------------------------------------------------------------
(* Package hex and the textual forms of AccountAddress *)

\* the value of a hexadecimal digit as encoding/hex reads it, -1 for any
\* other character
FromHexChar(c) ==
    IF c \in 48..57 THEN c - 48
    ELSE IF c \in 97..102 THEN c - 87
    ELSE IF c \in 65..70 THEN c - 55
    ELSE -1

\* the digits of hex.EncodeToString: 0123456789abcdef
HexDigit(n) == IF n < 10 THEN 48 + n ELSE 87 + n

\* hex.Encode: "0x" followed by two lowercase digits a byte
Encode(data) ==
    <<48, 120>> \o
    [i \in 1..(2 * Len(data)) |->
        IF i % 2 = 1 THEN HexDigit(data[(i + 1) \div 2] \div 16)
        ELSE HexDigit(data[i \div 2] % 16)]

ErrInvalidHex == "encoding/hex: invalid byte"

\* hex.Decode: both prefixes are trimmed in turn, an odd number of digits is
\* padded with a leading zero
Decode(s) ==
    LET s1 == TrimPrefix(TrimPrefix(s, <<48, 120>>), <<48, 88>>)
        s2 == IF Len(s1) % 2 # 0 THEN <<48>> \o s1 ELSE s1
    IN  IF \E i \in 1..Len(s2) : FromHexChar(s2[i]) = -1
        THEN [data |-> <<>>, err |-> ErrInvalidHex]
        ELSE [data |-> [i \in 1..(Len(s2) \div 2) |->
                          16 * FromHexChar(s2[2 * i - 1]) + FromHexChar(s2[2 * i])],
              err |-> NoError]

ErrHexTooLong == "hex: decoded length exceeds expected size"

\* hex.DecodeFixed
DecodeFixed(s, size) ==
    LET r == Decode(s) IN
    IF r.err # NoError THEN r
    ELSE IF Len(r.data) > size THEN [data |-> <<>>, err |-> ErrHexTooLong]
    ELSE [data |-> Repeat(0, size - Len(r.data)) \o r.data, err |-> NoError]

\* ParseAccountAddress: the address (zero on an error) and the error
ParseAccountAddress(s) ==
    LET r == DecodeFixed(s, AccountAddressLength) IN
    IF r.err # NoError
    THEN [addr |-> AccountAddressOf(Repeat(0, AccountAddressLength)), err |-> r.err]
    ELSE [addr |-> AccountAddressOf(r.data), err |-> NoError]

\* AccountAddress.String
AccountAddress_String(a) == Encode(a.s)

\* for len(s) > 1 && s[0] == '0' { s = s[1:] }: s from its first digit
\* that is not 0, or its last digit when all are 0
StripZeroDigits(s) ==
    LET nz == {i \in 1..Len(s) : s[i] # 48} IN
    IF s = <<>> THEN s
    ELSE IF nz = {} THEN <<s[Len(s)]>>
    ELSE SubSeq(s, CHOOSE i \in nz : \A j \in nz : i <= j, Len(s))

\* AccountAddress.ShortString
ShortString(a) ==
    <<48, 120>> \o StripZeroDigits(Slice(Encode(a.s), 2, 2 + 2 * Len(a.s)))

---------------------------------------------------------------------------
(* TypeTag: printer (String) and parser (ParseTypeTag) *)

\* what String returns for each variant without a payload: "bool", "u8",
\* "u16", "u32", "u64", "u128", "u256", "address", "signer"
PrimitiveKeyword ==
    [BoolTag |-> <<98, 111, 111, 108>>,
     U8Tag |-> <<117, 56>>,
     U16Tag |-> <<117, 49, 54>>,
     U32Tag |-> <<117, 51, 50>>,
     U64Tag |-> <<117, 54, 52>>,
     U128Tag |-> <<117, 49, 50, 56>>,
     U256Tag |-> <<117, 50, 53, 54>>,
     AddressTag |-> <<97, 100, 100, 114, 101, 115, 115>>,
     SignerTag |-> <<115, 105, 103, 110, 101, 114>>]

\* the separators "::", ", ", "<", ">", "," and the prefix "vector<"
StrColons == <<58, 58>>
StrCommaSpace == <<44, 32>>
StrLt == <<60>>
StrGt == <<62>>
StrVectorLt == <<118, 101, 99, 116, 111, 114, 60>>

RECURSIVE TypeTag_String(_)
RECURSIVE TypeTags_String(_)
\* TypeTag.String, and String of the variant it holds: the keyword,
\* vector<elem>, or shortAddress::module::name<p1, p2, ...>
TypeTag_String(t) ==
    IF t.items = <<>> THEN <<>>
    ELSE LET v == t.items[1] IN
         IF v.k \in PrimitiveTagNames THEN PrimitiveKeyword[v.k]
         ELSE IF v.k = "VectorTag"
         THEN StrVectorLt \o TypeTag_String(v.items[1]) \o StrGt
         ELSE LET head == ShortString(AccountAddressOf(v.s)) \o StrColons
                            \o v.items[1].s \o StrColons \o v.items[2].s
                  params == v.items[3].items
              IN  IF Len(params) > 0
                  THEN head \o StrLt \o Join(TypeTags_String(params), StrCommaSpace)
                            \o StrGt
                  ELSE head

\* params[i] = tp.String()
TypeTags_String(ts) ==
    IF ts = <<>> THEN <<>>
    ELSE <<TypeTag_String(Head(ts))>> \o TypeTags_String(Tail(ts))

ErrVectorElement == "invalid vector element type"
ErrMissingClosing == "invalid struct tag: missing closing >"
ErrStructFormat == "invalid struct tag format: expected address::module::name"
ErrStructAddress == "invalid struct tag address"

\* what the parser returns: (TypeTag, error), TypeTag{} beside an error
Parsed(t) == [tag |-> t, err |-> NoError]
ParseError(e) == [tag |-> TypeTagNil, err |-> e]

RECURSIVE ParseTypeTag(_)
RECURSIVE parseStructTag(_)
RECURSIVE parseTypeParamsFrom(_, _, _, _)

\* parseTypeParams: the type parameters of the comma-separated list s, or
\* the first error of a parameter. depth at index i is what the loop has
\* counted over s[:i]: one up for each '<', one down for each '>'; the loop
\* splits at the commas it meets at depth 0
parseTypeParams(s) ==
    LET depth(i) == Cardinality({j \in 1..i : s[j] = 60})
                      - Cardinality({j \in 1..i : s[j] = 62})
        commas == {i \in 0..(Len(s) - 1) : s[i + 1] = 44 /\ depth(i) = 0}
    IN  parseTypeParamsFrom(s, commas, 0, <<>>)

\* the loop of parseTypeParams from the parameter that begins at start, with
\* params as the iterations before left them, then the last parameter
\* after the loop
parseTypeParamsFrom(s, commas, start, params) ==
    IF \E i \in commas : i >= start
    THEN LET i == CHOOSE c \in commas : c >= start /\ \A x \in commas : x >= start => c <= x
             param == ParseTypeTag(TrimSpace(Slice(s, start, i)))
         IN  IF param.err # NoError THEN [params |-> <<>>, err |-> param.err]
             ELSE parseTypeParamsFrom(s, commas, i + 1, Append(params, param.tag))
    ELSE IF start < Len(s)
    THEN LET param == ParseTypeTag(TrimSpace(Slice(s, start, Len(s)))) IN
         IF param.err # NoError THEN [params |-> <<>>, err |-> param.err]
         ELSE [params |-> Append(params, param.tag), err |-> NoError]
    ELSE [params |-> params, err |-> NoError]

\* parseStructTag
parseStructTag(s0) ==
    LET angleStart == Index(s0, StrLt) IN
    IF angleStart # -1 /\ ~HasSuffix(s0, StrGt) THEN ParseError(ErrMissingClosing)
    ELSE
    LET typeParamsStr ==
            IF angleStart # -1 THEN Slice(s0, angleStart + 1, Len(s0) - 1) ELSE <<>>
        s == IF angleStart # -1 THEN Slice(s0, 0, angleStart) ELSE s0
        parts == SplitN(s, StrColons, 3)
    IN  IF Len(parts) # 3 THEN ParseError(ErrStructFormat)
        ELSE LET a == ParseAccountAddress(parts[1]) IN
             IF a.err # NoError THEN ParseError(ErrStructAddress)
             ELSE IF typeParamsStr # <<>>
             THEN LET r == parseTypeParams(typeParamsStr) IN
                  IF r.err # NoError THEN ParseError(r.err)
                  ELSE Parsed(TypeTagOf(StructTag(a.addr.s, parts[2], parts[3],
                                                  r.params)))
             ELSE Parsed(TypeTagOf(StructTag(a.addr.s, parts[2], parts[3], <<>>)))

\* ParseTypeTag
ParseTypeTag(s0) ==
    LET s == TrimSpace(s0) IN
    IF \E name \in PrimitiveTagNames : PrimitiveKeyword[name] = s
    THEN Parsed(TypeTagOf(PrimitiveTag(
             CHOOSE name \in PrimitiveTagNames : PrimitiveKeyword[name] = s)))
    ELSE IF HasPrefix(s, StrVectorLt) /\ HasSuffix(s, StrGt)
    THEN LET elemType == ParseTypeTag(Slice(s, 7, Len(s) - 1)) IN
         IF elemType.err # NoError THEN ParseError(ErrVectorElement)
         ELSE Parsed(TypeTagOf(VectorTag(elemType.tag)))
    ELSE parseStructTag(s)

---------------------------------------------------------------------------
(* The textual round trip of TypeTag as a state machine: a tag is built and
   printed, a string is parsed, and what either call returned is passed to
   the other one. wlog records the calls: String with its receiver,
   ParseTypeTag with its argument. *)

MaxTextTokens == 4
MaxTextCalls == 3

\* the pieces the parsed strings are assembled from: "u8", "vector<", "<",
\* ">", ",", " ", "0x1::coin::Coin", "::c"
TextTokens ==
    {<<117, 56>>,
     <<118, 101, 99, 116, 111, 114, 60>>,
     <<60>>,
     <<62>>,
     <<44>>,
     <<32>>,
     <<48, 120, 49, 58, 58, 99, 111, 105, 110, 58, 58, 67, 111, 105, 110>>,
     <<58, 58, 99>>}

RECURSIVE TokenStrings(_)
\* the concatenations of at most n pieces
TokenStrings(n) ==
    IF n = 0 THEN {<<>>}
    ELSE LET S == TokenStrings(n - 1) IN S \cup {a \o x : a \in S, x \in TextTokens}

\* the strings of TestParseTypeTag's kind that need more pieces
LongTexts ==
    {<<105, 110, 118, 97, 108, 105, 100, 58, 58, 116, 121, 112,
      101>>,
     <<48, 120, 49, 58, 58, 97, 58, 58, 98, 58, 58, 99>>,
     <<48, 120, 49, 58, 58, 97>>,
     <<48, 120, 49>>,
     <<48, 120, 49, 58, 58, 99, 111, 105, 110, 58, 58, 67, 111, 105,
      110, 83, 116, 111, 114, 101, 60, 48, 120, 49, 58, 58, 97, 112,
      116, 111, 115, 95, 99, 111, 105, 110, 58, 58, 65, 112, 116,
      111, 115, 67, 111, 105, 110, 62>>,
     <<48, 120, 48, 48, 48, 49, 58, 58, 99, 111, 105, 110, 58, 58,
      67, 111, 105, 110>>,
     <<48, 88, 49, 58, 58, 99, 111, 105, 110, 58, 58, 67, 111, 105,
      110>>,
     <<48, 120, 49, 58, 58, 99, 111, 105, 110, 58, 58, 67, 111, 105,
      110, 60, 117, 56, 44, 117, 56, 62>>,
     <<48, 120, 49, 58, 58, 99, 111, 105, 110, 58, 58, 67, 111, 105,
      110, 60, 62>>,
     <<48, 120, 49, 58, 58, 99, 111, 105, 110, 58, 58, 67, 111, 105,
      110, 60, 118, 101, 99, 116, 111, 114, 60, 117, 56, 62, 44, 32,
      48, 120, 49, 58, 58, 99, 111, 105, 110, 58, 58, 67, 111, 105,
      110, 60, 117, 56, 44, 32, 97, 100, 100, 114, 101, 115, 115, 62,
      62>>,
     <<48, 120, 49, 58, 58, 99, 111, 105, 110, 58, 58, 67, 111, 105,
      110, 60, 48, 120, 49, 58, 58, 99, 111, 105, 110, 58, 58, 67,
      111, 105, 110, 62, 62>>,
     <<48, 120, 49, 58, 58, 99, 111, 105, 110, 58, 58, 67, 111, 105,
      110, 60, 117, 56, 62, 44, 32, 117, 56, 62>>,
     <<48, 120, 49, 58, 58, 99, 111, 105, 110, 58, 58, 67, 111, 105,
      110, 60, 48, 120, 49, 58, 58, 99, 111, 105, 110, 58, 58, 67,
      111, 105, 110, 62, 44, 32, 117, 56, 62>>,
     <<48, 120, 49, 58, 58, 99, 111, 105, 110, 58, 58, 67, 111, 105,
      110, 60, 117, 56>>,
     <<48, 120, 49, 58, 58, 99, 111, 105, 110, 58, 58, 67, 111, 105,
      110, 60, 118, 101, 99, 116, 111, 114, 60, 117, 56, 62>>,
     <<48, 120, 49, 58, 58, 99, 111, 105, 110, 58, 58, 67, 111, 105,
      110, 60, 118, 101, 99, 116, 111, 114, 60, 117, 56, 44, 32, 117,
      56, 62>>,
     <<117, 110, 107, 110, 111, 119, 110>>,
     <<117, 53, 49, 50>>,
     <<9, 117, 54, 52, 10>>,
     <<118, 101, 99, 116, 111, 114, 60, 118, 101, 99, 116, 111, 114,
      60, 117, 56, 62, 62>>,
     <<48, 120, 122, 122, 58, 58, 97, 58, 58, 98>>,
     <<48, 120, 49, 49, 49, 49, 49, 49, 49, 49, 49, 49, 49, 49, 49,
      49, 49, 49, 49, 49, 49, 49, 49, 49, 49, 49, 49, 49, 49, 49, 49,
      49, 49, 49, 49, 49, 49, 49, 49, 49, 49, 49, 49, 49, 49, 49, 49,
      49, 49, 49, 49, 49, 49, 49, 49, 49, 49, 49, 49, 49, 49, 49, 49,
      49, 49, 49, 49, 58, 58, 97, 58, 58, 98>>}

TextInputs == TokenStrings(MaxTextTokens) \cup LongTexts

\* t.String() on the tag a literal or ParseTypeTag gave
CallString ==
    /\ phase \in {"built", "parsed"}
    /\ panic = NoPanic
    /\ ret.k = "TypeTag"
    /\ Len(wlog) < MaxTextCalls
    /\ wlog' = Append(wlog, [call |-> "String", arg |-> ret])
    /\ ret' = VString(TypeTag_String(ret))
    /\ op' = OpT("String", "TypeTag")
    /\ phase' = "printed"
    /\ UNCHANGED <<ser, des, matched, panic>>

\* ParseTypeTag(s) on a caller's string or on what String returned
CallParseTypeTag ==
    /\ phase \in {"encode", "printed"}
    /\ panic = NoPanic
    /\ Len(wlog) < MaxTextCalls
    /\ \E s \in (IF phase = "encode" THEN TextInputs ELSE {ret.s}) :
        LET r == ParseTypeTag(s) IN
        /\ wlog' = Append(wlog, [call |-> "ParseTypeTag", arg |-> VString(s)])
        /\ ret' = IF r.err = NoError THEN r.tag ELSE VErrorWith(r.err, r.tag)
    /\ op' = OpT("ParseTypeTag", "TypeTag")
    /\ phase' = "parsed"
    /\ UNCHANGED <<ser, des, matched, panic>>

NextTypeTagText ==
    \/ BuildTypeTag
    \/ CallString
    \/ CallParseTypeTag

SpecTypeTagText == Init /\ [][NextTypeTagText]_vars

\* ParseTypeTag has just returned for the string that String printed
ParsedFromPrinted ==
    /\ phase = "parsed"
    /\ Len(wlog) >= 2
    /\ wlog[Len(wlog) - 1].call = "String"

\* the receiver of that String: a literal of the caller when String was
\* the first call, what ParseTypeTag returned otherwise
Printed == wlog[Len(wlog) - 1].arg

\* C13: ParseTypeTag(t.String()) succeeds and equals t, for every TypeTag t
\* with a value everywhere that a caller built and for every TypeTag t that
\* ParseTypeTag returned.
C13_ParseInvertsString ==
    (ParsedFromPrinted /\ (Len(wlog) = 2 => Printed \in TypeTags))
        => ret = Printed

\* ParseTypeTag has just returned
JustParsed ==
    /\ phase = "parsed"
    /\ wlog # <<>>
    /\ wlog[Len(wlog)].call = "ParseTypeTag"

\* the string it was given
ParsedText == wlog[Len(wlog)].arg.s

\* s is parsed as a struct tag: it is no keyword and no vector<...>
IsStructText(s) ==
    /\ \A name \in PrimitiveTagNames : PrimitiveKeyword[name] # s
    /\ ~(HasPrefix(s, StrVectorLt) /\ HasSuffix(s, StrGt))

\* the "::"-delimited parts of the head of s, the head being what stands
\* before the first '<'
HeadParts(s) ==
    LET angleStart == Index(s, StrLt)
        head == IF angleStart = -1 THEN s ELSE Slice(s, 0, angleStart)
    IN  SplitN(head, StrColons, Len(head) + 1)

\* C14: ParseTypeTag returns an error for every struct tag whose head does
\* not split into exactly three "::"-delimited parts, fewer or more.
C14_ColonArityRejected ==
    (JustParsed /\ IsStructText(TrimSpace(ParsedText))
       /\ Len(HeadParts(TrimSpace(ParsedText))) # 3)
        => ret.k = "error"

\* every '>' of s closes a '<' before it and every '<' is closed
Balanced(s) ==
    LET depth(i) == Cardinality({j \in 1..i : s[j] = 60})
                      - Cardinality({j \in 1..i : s[j] = 62})
    IN  /\ \A i \in 1..Len(s) : depth(i) >= 0
        /\ depth(Len(s)) = 0

\* C15: ParseTypeTag returns an error for every string whose angle brackets
\* are not balanced and nested.
C15_UnbalancedRejected ==
    (JustParsed /\ ~Balanced(ParsedText)) => ret.k = "error"

---------------------------------------------------------------------------
(* The tagged unions of a transaction: payload, executable, script
   argument, authenticator *)

\* the values a caller may put into ScriptArgument.Value, one of each Go
\* type that MarshalBCS asserts, and nil
ScriptValues ==
    {VU8(7), VU16(Uint16(258)), VU32(Uint32(1, 2)), VU64(Uint64(0, 0, 1, 2)),
     U128Of(Big(FALSE, <<1>>)), U256Of(Big(FALSE, <<1, 0>>)), AccountOne,
     VBytes(<<1, 2>>), VBool(TRUE), VNil}

\* the ScriptArgumentVariant constants and the next value
ScriptArguments == {ScriptArgument(n, v) : n \in 0..9, v \in ScriptValues}

\* 0x1::coin::transfer<0x1::aptos_coin::AptosCoin>(0x1, 1000)
StrTransfer == <<116, 114, 97, 110, 115, 102, 101, 114>>
CoinTransfer ==
    EntryFunction(ModuleId(AccountOne.s, StrCoinModule), StrTransfer,
                  <<AptosCoinTypeTag>>,
                  <<VBytes(AccountOne.s), VBytes(<<232, 3, 0, 0, 0, 0, 0, 0>>)>>)

Scripts ==
    {Script(<<161, 28>>, <<>>, <<>>),
     Script(<<161, 28>>, <<TypeTagOf(PrimitiveTag("U8Tag"))>>,
            <<ScriptArgument(0, VU8(7)), ScriptArgument(5, VBool(FALSE))>>),
     Script(<<161, 28>>, <<TypeTagNil>>, <<ScriptArgument(1, VU8(7))>>)}

TransactionExecutables ==
    {TransactionExecutable(n, sc, ef) :
        n \in 0..2,
        sc \in {VNil} \cup {VPtr(x) : x \in Scripts},
        ef \in {VNil, VPtr(CoinTransfer)}}

ExtraConfigs ==
    {TransactionExtraConfigV1(VNil, VNil),
     TransactionExtraConfigV1(VPtr(AccountOne), VPtr(VU64(Uint64(0, 0, 0, 42))))}

TransactionPayloads ==
    {TransactionPayloadNil, TransactionPayloadOf(CoinTransfer)}
      \cup {TransactionPayloadOf(x) : x \in Scripts}
      \cup {TransactionPayloadOf(TransactionInnerPayloadV1(e, c)) :
                e \in TransactionExecutables, c \in ExtraConfigs}

TransactionAuthenticators ==
    {TransactionAuthenticator(n, a) :
        n \in {0, 4},
        a \in {VNil, AccountAuthenticatorEd25519(Repeat(17, 32), Repeat(34, 64))}}

BuildUnion ==
    \E v \in ScriptArguments \cup TransactionExecutables \cup TransactionPayloads
               \cup TransactionAuthenticators \cup NilTypeTags :
        Built("literal", [ret |-> v, panic |-> NoPanic])

NextUnion ==
    \/ BuildUnion
    \/ CallSerialize

SpecUnion == Init /\ [][NextUnion]_vars

\* the payload of the union v is unset: a nil Value, Payload or Auth, a nil
\* pointer for the Variant, a Value of another type than the Variant's
UnsetPayload(v) ==
    \/ v.k \in {"TypeTag", "TransactionPayload"} /\ v.items = <<>>
    \/ v.k = "TransactionAuthenticator" /\ v.items[1].k = "nil"
    \/ v.k = "TransactionExecutable" /\ v.n = 0 /\ v.items[1].k = "nil"
    \/ v.k = "TransactionExecutable" /\ v.n = 1 /\ v.items[2].k = "nil"
    \/ /\ v.k = "ScriptArgument"
       /\ v.n + 1 \in DOMAIN ScriptArgumentTypes
       /\ v.items[1].k # ScriptArgumentTypes[v.n + 1]

\* C16: bcs.Serialize of a tagged union whose payload is unset returns a
\* non-nil error and no bytes, and does not panic.
C16_UnsetPayloadIsError ==
    (phase = "serialized" /\ UnsetPayload(wlog[1].arg))
        => /\ panic = NoPanic
           /\ ret.e # NoError
           /\ ret.k = "nil"

---------------------------------------------------------------------------
(* U128 and U256 as decimal strings *)

RECURSIVE DivMod10(_, _)
\* the quotient (big-endian, as long as be) and the remainder of dividing
\* rem*256^len(be) + be by 10
DivMod10(be, rem) ==
    IF be = <<>> THEN [q |-> <<>>, r |-> rem]
    ELSE LET x == rem * 256 + Head(be)
             rest == DivMod10(Tail(be), x % 10)
         IN  [q |-> <<x \div 10>> \o rest.q, r |-> rest.r]

RECURSIVE DecimalDigits(_)
\* the decimal digits of the magnitude abs, most significant first, none
\* for zero
DecimalDigits(abs) ==
    IF abs = <<>> THEN <<>>
    ELSE LET d == DivMod10(abs, 0)
         IN  Append(DecimalDigits(StripLeadingZeros(d.q)), 48 + d.r)

\* (*big.Int).String for a non-nil receiver: "0", or the digits after "-"
\* for a negative value
BigString(x) ==
    IF x.abs = <<>> THEN <<48>>
    ELSE IF x.neg THEN <<45>> \o DecimalDigits(x.abs)
    ELSE DecimalDigits(x.abs)

\* U128.String and U256.String
U128_String(u) == IF u.big.isnil THEN <<48>> ELSE BigString(u.big)
U256_String(u) == IF u.big.isnil THEN <<48>> ELSE BigString(u.big)

MaxDecimalLen == 3

\* the characters of the parsed strings: 0 1 9 + - , _ x and the space
DecimalChars == {48, 49, 57, 43, 45, 44, 95, 120, 32}

RECURSIVE CharStrings(_)
\* the strings of at most n of these characters
CharStrings(n) ==
    IF n = 0 THEN {<<>>}
    ELSE LET S == CharStrings(n - 1) IN S \cup {Append(a, c) : a \in S, c \in DecimalChars}

DecimalTexts ==
    CharStrings(MaxDecimalLen) \cup DecimalStrings

\* a string is passed to a parser or a value is printed: the call is logged
\* with its argument or receiver
TextCall(name, arg, value, to) ==
    /\ panic = NoPanic
    /\ Len(wlog) < MaxTextCalls
    /\ wlog' = Append(wlog, [call |-> name, arg |-> arg])
    /\ ret' = value
    /\ op' = Op(name)
    /\ phase' = to
    /\ UNCHANGED <<ser, des, matched, panic>>

\* the strings a parser of the type t is given: a caller's, or the one
\* String printed from a value of the type
TextsFor(t) ==
    IF phase = "encode" THEN DecimalTexts
    ELSE IF phase = "printed" /\ wlog[Len(wlog)].arg.k = t THEN {ret.s}
    ELSE {}

CallU128FromString ==
    \E s \in TextsFor("U128") :
        TextCall("U128FromString", VString(s), U128FromString(s).ret, "parsed")

CallU256FromString ==
    \E s \in TextsFor("U256") :
        TextCall("U256FromString", VString(s), U256FromString(s).ret, "parsed")

CallU128String ==
    /\ phase = "parsed"
    /\ ret.k = "U128"
    /\ ret.e = NoError
    /\ TextCall("String", ret, VString(U128_String(ret)), "printed")

CallU256String ==
    /\ phase = "parsed"
    /\ ret.k = "U256"
    /\ ret.e = NoError
    /\ TextCall("String", ret, VString(U256_String(ret)), "printed")

NextDecimal ==
    \/ CallU128FromString
    \/ CallU256FromString
    \/ CallU128String
    \/ CallU256String

SpecDecimal == Init /\ [][NextDecimal]_vars

\* one or more decimal digits and nothing else
PlainDecimal(s) == s # <<>> /\ \A i \in 1..Len(s) : s[i] \in 48..57

\* no leading zeros except a bare "0"
CanonicalDecimal(s) == PlainDecimal(s) /\ (Len(s) > 1 => s[1] # 48)

\* C17: U128FromString and U256FromString return an error for every string
\* that is not a plain unsigned decimal numeral; String of an accepted
\* canonical numeral is the numeral, and parsing what String printed gives
\* the printed value.
C17_OnlyPlainDecimals ==
    /\ (phase = "parsed" /\ ~PlainDecimal(wlog[Len(wlog)].arg.s))
          => ret.e # NoError
    /\ (phase = "printed" /\ Len(wlog) = 2 /\ CanonicalDecimal(wlog[1].arg.s))
          => ret.s = wlog[1].arg.s
    /\ (phase = "parsed" /\ Len(wlog) = 3)
          => ret = wlog[2].arg

---------------------------------------------------------------------------
(* AccountAddress as text *)

MaxHexLen == 3

\* the characters of the parsed strings: 0 1 a F g x X
HexChars == {48, 49, 97, 70, 103, 120, 88}

RECURSIVE HexStrings(_)
\* the strings of at most n of these characters
HexStrings(n) ==
    IF n = 0 THEN {<<>>}
    ELSE LET S == HexStrings(n - 1) IN S \cup {Append(a, c) : a \in S, c \in HexChars}

\* the addresses printed: 0x0, 0x1, 0xa1b2, 0x100, 0x10..0, 0xff..f,
\* 0x0f0..0, 0x0..0a00
Addresses ==
    {AccountZero, AccountOne, AccountA1B2,
     AccountAddressOf(Repeat(0, AccountAddressLength - 2) \o <<1, 0>>),
     AccountAddressOf(<<16>> \o Repeat(0, AccountAddressLength - 1)),
     AccountAddressOf(Repeat(255, AccountAddressLength)),
     AccountAddressOf(<<15>> \o Repeat(0, AccountAddressLength - 1)),
     AccountAddressOf(Repeat(0, AccountAddressLength - 2) \o <<10, 0>>)}

\* the strings parsed: short ones with and without "0x", and ones of 63 to
\* 66 digits
AddressTexts ==
    HexStrings(MaxHexLen)
      \cup {<<48, 120>> \o h : h \in HexStrings(MaxHexLen)}
      \cup {p \o Repeat(49, n) : p \in {<<>>, <<48, 120>>}, n \in 63..66}
      \cup {<<48, 120>> \o Repeat(48, 65) \o <<49>>,
            <<48, 88, 49>>, <<48, 120, 48, 88, 49>>, <<48, 120, 122, 122>>}

BuildAddress ==
    \E a \in Addresses : Built("literal", [ret |-> a, panic |-> NoPanic])

CallAddressString ==
    /\ phase = "built"
    /\ ret.k = "AccountAddress"
    /\ TextCall("String", ret, VString(AccountAddress_String(ret)), "printed")

CallShortString ==
    /\ phase = "built"
    /\ ret.k = "AccountAddress"
    /\ TextCall("ShortString", ret, VString(ShortString(ret)), "printed")

CallParseAccountAddress ==
    /\ phase \in {"encode", "printed"}
    /\ \E s \in (IF phase = "encode" THEN AddressTexts ELSE {ret.s}) :
        LET r == ParseAccountAddress(s) IN
        TextCall("ParseAccountAddress", VString(s),
                 IF r.err = NoError THEN r.addr ELSE VErrorWith(r.err, r.addr),
                 "parsed")

NextAddressText ==
    \/ BuildAddress
    \/ CallAddressString
    \/ CallShortString
    \/ CallParseAccountAddress

SpecAddressText == Init /\ [][NextAddressText]_vars

\* the characters 0-9 and a-f
LowerHexDigits == (48..57) \cup (97..102)
\* the characters 0-9, a-f and A-F
HexDigits == LowerHexDigits \cup (65..70)

\* the bytes the hexadecimal digits ds stand for, padded with zero digits on
\* the left to 2n digits
BytesOfDigits(ds, n) ==
    LET padded == Repeat(48, 2 * n - Len(ds)) \o ds
    IN  [i \in 1..n |-> 16 * FromHexChar(padded[2 * i - 1]) + FromHexChar(padded[2 * i])]

\* s without one leading "0x" or "0X"
Unprefixed(s) ==
    IF HasPrefix(s, <<48, 120>>) \/ HasPrefix(s, <<48, 88>>)
    THEN SubSeq(s, 3, Len(s)) ELSE s

\* C18: String is "0x" and the 64 lowercase digits of the address,
\* ShortString is "0x" and the same digits without the leading zeros but
\* with at least one digit, both parse to the address, and
\* ParseAccountAddress returns the left-padded value of its hexadecimal
\* digits, or an error when a character is no hexadecimal digit or the
\* digits make more than 32 bytes.
C18_AddressText ==
    /\ (phase = "printed" /\ wlog[1].call = "String")
          => /\ Len(ret.s) = 2 + 2 * AccountAddressLength
             /\ HasPrefix(ret.s, <<48, 120>>)
             /\ \A i \in 3..Len(ret.s) : ret.s[i] \in LowerHexDigits
             /\ BytesOfDigits(SubSeq(ret.s, 3, Len(ret.s)), AccountAddressLength)
                  = wlog[1].arg.s
    /\ (phase = "printed" /\ wlog[1].call = "ShortString")
          => LET ds == SubSeq(ret.s, 3, Len(ret.s)) IN
             /\ HasPrefix(ret.s, <<48, 120>>)
             /\ Len(ds) >= 1
             /\ Len(ds) > 1 => ds[1] # 48
             /\ AccountAddress_String(wlog[1].arg)
                  = <<48, 120>> \o Repeat(48, 2 * AccountAddressLength - Len(ds)) \o ds
    /\ (phase = "parsed" /\ Len(wlog) = 2) => ret = wlog[1].arg
    /\ (phase = "parsed" /\ Len(wlog) = 1)
          => LET ds == Unprefixed(wlog[1].arg.s) IN
             IF \E i \in 1..Len(ds) : ds[i] \notin HexDigits THEN ret.k = "error"
             ELSE IF (Len(ds) + 1) \div 2 > AccountAddressLength THEN ret.k = "error"
             ELSE ret = AccountAddressOf(BytesOfDigits(ds, AccountAddressLength))

---------------------------------------------------------------------------
(* Entry-function argument encoders, without and with the Serializer pool *)

\* the encoders that build their bytes without a Serializer
DirectArgs ==
    {"BoolArg", "U8Arg", "U16Arg", "U32Arg", "U64Arg", "AddressArg", "ObjectArg"}

\* BoolArg, U8Arg, U16Arg, U32Arg, U64Arg, AddressArg, ObjectArg: the same
\* code in both implementations
DirectArg(name, v) ==
    CASE name = "BoolArg" -> IF v.b THEN SomeBytes(<<1>>) ELSE SomeBytes(<<0>>)
      [] name = "U8Arg" -> SomeBytes(<<v.n>>)
      [] name = "U16Arg" -> SomeBytes(PutUint(v.s, 2))
      [] name = "U32Arg" -> SomeBytes(PutUint(v.s, 4))
      [] name = "U64Arg" -> SomeBytes(PutUint(v.s, 8))
      [] name \in {"AddressArg", "ObjectArg"} -> SomeBytes(v.s)

RECURSIVE ArgEach(_, _)
\* for _, v := range values { ser.U64(v) }, and the loops over addresses
\* (ser.FixedBytes(addr[:])) and strings (ser.String(v))
ArgEach(s, items) ==
    IF items = <<>> THEN s
    ELSE LET x == Head(items)
             s1 == CASE x.k = "uint64" -> Serializer_U64(s, x.s)
                     [] x.k = "AccountAddress" -> Serializer_FixedBytes(s, x.s)
                     [] x.k = "string" -> Serializer_String(s, x.s)
         IN  ArgEach(s1, Tail(items))

\* the calls an encoder makes on its Serializer s, the same in both
\* implementations
ArgWrites(s, name, v) ==
    CASE name = "U128Arg" -> Serializer_U128(s, v.big)
      [] name = "U256Arg" -> Serializer_U256(s, v.big)
      [] name = "StringArg" -> Serializer_String(s, v.s)
      [] name \in {"BytesArg", "VectorU8Arg"} -> Serializer_Bytes(s, v.s)
      [] name \in {"VectorU64Arg", "VectorAddressArg", "VectorStringArg"} ->
            ArgEach(Serializer_Uleb128(s, Uint32OfInt(Len(v.items))), v.items)
      [] name \in {"OptionU64Arg", "OptionAddressArg", "OptionStringArg"} ->
            IF v.k = "nil" THEN Serializer_U8(s, 0)
            ELSE ArgEach(Serializer_U8(s, 1), v.items)

\* the encoders that allocate their Serializer: ser := bcs.NewSerializer();
\* ...; return ser.ToBytes()
Arg(name, v) ==
    IF name \in DirectArgs THEN DirectArg(name, v)
    ELSE Serializer_ToBytes(ArgWrites(NewSerializer, name, v))

\* variant of AcquireSerializer that hands out the instance as released
AcquireSerializerNoReset(pool) == pool

\* bcs.AcquireSerializer: the pool's instance with its state reset
AcquireSerializer(pool) == [pool EXCEPT !.buf = <<>>, !.err = NoError]

\* bcs.ReleaseSerializer: the instance goes back to the pool
ReleaseSerializer(s) == s

\* append([]byte(nil), b...)
CopyBytes(b) == IF b.isnil \/ b.bytes = <<>> THEN NilBytes ELSE SomeBytes(b.bytes)

\* the encoders that take their Serializer from the pool: the bytes
\* returned and the pool after the call
PooledArg(pool, name, v) ==
    IF name \in DirectArgs THEN [result |-> DirectArg(name, v), pool |-> pool]
    ELSE LET s1 == ArgWrites(AcquireSerializer(pool), name, v)
         IN  [result |-> CopyBytes(Serializer_ToBytes(s1)),
              pool |-> ReleaseSerializer(s1)]

\* the longest sequence of calls served by the pool
MaxPooledCalls == 2

\* the arguments of the encoders
U64Slices ==
    {VSlice(<<>>), VSlice(<<VU64(Uint64(0, 0, 0, 1))>>),
     VSlice(<<VU64(Uint64(4660, 22136, 39612, 57072)), VU64(Uint64(0, 0, 0, 1))>>)}
AddressSlices ==
    {VSlice(<<>>), VSlice(<<AccountOne>>), VSlice(<<AccountA1B2, AccountOne>>)}
StringSlices ==
    {VSlice(<<>>), VSlice(<<VString(<<>>)>>),
     VSlice(<<VString(<<104, 105>>), VString(<<>>), VString(<<97>>)>>)}

ArgInputs ==
    [name : {"BoolArg"}, v : {VBool(TRUE), VBool(FALSE)}]
      \cup [name : {"U8Arg"}, v : {VU8(x) : x \in U8Values}]
      \cup [name : {"U16Arg"}, v : {VU16(x) : x \in U16Values}]
      \cup [name : {"U32Arg"}, v : {VU32(x) : x \in U32Values}]
      \cup [name : {"U64Arg"}, v : {VU64(x) : x \in U64Values}]
      \cup [name : {"U128Arg"}, v : {VBig(x) : x \in BigValid128 \cup BigInvalid128}]
      \cup [name : {"U256Arg"}, v : {VBig(x) : x \in BigValid256 \cup BigInvalid256}]
      \cup [name : {"AddressArg", "ObjectArg"}, v : {AccountOne, AccountA1B2}]
      \cup [name : {"StringArg"}, v : {VString(x) : x \in StringValues}]
      \cup [name : {"BytesArg", "VectorU8Arg"}, v : {VBytes(x) : x \in BytesValues}]
      \cup [name : {"VectorU64Arg"}, v : U64Slices]
      \cup [name : {"VectorAddressArg"}, v : AddressSlices]
      \cup [name : {"VectorStringArg"}, v : StringSlices]
      \cup [name : {"OptionU64Arg"}, v : {VNil, VPtr(VU64(Uint64(0, 0, 1, 2)))}]
      \cup [name : {"OptionAddressArg"}, v : {VNil, VPtr(AccountA1B2)}]
      \cup [name : {"OptionStringArg"},
            v : {VNil, VPtr(VString(<<>>)), VPtr(VString(<<104, 105>>))}]

\* an encoder of the implementation without the pool is called
CallArg ==
    /\ phase = "encode"
    /\ wlog = <<>>
    /\ \E a \in ArgInputs :
        /\ wlog' = <<[call |-> a.name, arg |-> a.v]>>
        /\ ret' = VBytesError(Arg(a.name, a.v), NoError)
        /\ op' = OpT(a.name, "unpooled")
    /\ phase' = "direct"
    /\ UNCHANGED <<ser, des, matched, panic>>

\* an encoder of the implementation with the pool is called; ser is the
\* instance in the pool
CallPooledArg ==
    /\ phase \in {"encode", "pooled"}
    /\ Len(wlog) < MaxPooledCalls
    /\ \E a \in ArgInputs :
        LET r == PooledArg(ser, a.name, a.v) IN
        /\ wlog' = Append(wlog, [call |-> a.name, arg |-> a.v])
        /\ ret' = VBytesError(r.result, NoError)
        /\ ser' = r.pool
        /\ op' = OpT(a.name, "pooled")
    /\ phase' = "pooled"
    /\ UNCHANGED <<des, matched, panic>>

NextArgs ==
    \/ CallArg
    \/ CallPooledArg

SpecArgs == Init /\ [][NextArgs]_vars

\* the bytes of a machine word, least significant first
LittleEndianBytes(bits) ==
    [i \in 1..(Len(bits) \div 8) |-> NatOf(SubSeq(bits, 8 * i - 7, 8 * i))]

\* the uleb128 length of bs followed by bs
LengthPrefixed(bs) == Uleb128Bytes(Uint32OfInt(Len(bs))) \o bs

RECURSIVE ElementsLayout(_)
\* the encodings of the elements, in the order of the slice
ElementsLayout(items) ==
    IF items = <<>> THEN <<>>
    ELSE LET x == Head(items) IN
         (CASE x.k = "uint64" -> LittleEndianBytes(x.s)
            [] x.k = "AccountAddress" -> x.s
            [] x.k = "string" -> LengthPrefixed(x.s))
           \o ElementsLayout(Tail(items))

\* the encoding of the Move value: what the encoder is to return for a
\* valid argument
ArgLayout(name, v) ==
    CASE name = "BoolArg" -> IF v.b THEN <<1>> ELSE <<0>>
      [] name = "U8Arg" -> <<v.n>>
      [] name \in {"U16Arg", "U32Arg", "U64Arg"} -> LittleEndianBytes(v.s)
      [] name = "U128Arg" -> LittleEndianOf(v.big, 16)
      [] name = "U256Arg" -> LittleEndianOf(v.big, 32)
      [] name \in {"AddressArg", "ObjectArg"} -> v.s
      [] name \in {"StringArg", "BytesArg", "VectorU8Arg"} -> LengthPrefixed(v.s)
      [] name \in {"VectorU64Arg", "VectorAddressArg", "VectorStringArg"} ->
            Uleb128Bytes(Uint32OfInt(Len(v.items))) \o ElementsLayout(v.items)
      [] name \in {"OptionU64Arg", "OptionAddressArg", "OptionStringArg"} ->
            IF v.k = "nil" THEN <<0>> ELSE <<1>> \o ElementsLayout(v.items)

\* the argument is one the Move type can hold
ValidArg(name, v) ==
    /\ name = "U128Arg" => v.big \in BigValid128
    /\ name = "U256Arg" => v.big \in BigValid256

\* the call made last
LastCall == wlog[Len(wlog)]

\* C19: every encoder returns the encoding of the Move value for a valid
\* argument, and the implementation with the pool returns what the one
\* without the pool returns for every argument, whatever call the pool's
\* Serializer was released from.
C19_ArgEncoders ==
    (phase \in {"direct", "pooled"}) =>
        /\ ValidArg(LastCall.call, LastCall.arg)
              => /\ ret.k = "[]byte"
                 /\ ret.s = ArgLayout(LastCall.call, LastCall.arg)
        /\ ret = VBytesError(Arg(LastCall.call, LastCall.arg), NoError)

\* an encoder took from the pool a Serializer released with a latched
\* error and returned the bytes of a vector of three strings
C19_Witness ==
    /\ phase = "pooled"
    /\ Len(wlog) = 2
    /\ wlog[1].call = "U128Arg"
    /\ wlog[1].arg.big.neg
    /\ wlog[2].call = "VectorStringArg"
    /\ Len(wlog[2].arg.items) = 3
    /\ ret.s = <<3, 2, 104, 105, 0, 1, 97>>
    /\ ser.err = NoError

---------------------------------------------------------------------------
(* Signing. A caller builds a RawTransaction, signs it through a pointer,  *)
(* goes on writing to the RawTransaction it holds, and reads the           *)
(* SignedTransaction. wlog is the history of the caller's variables: the   *)
(* arg of each entry holds what *raw and signed are after the step.         *)

\* the most assignments a caller makes to the RawTransaction after signing
MaxAssigns == 1

RECURSIVE SumStride(_, _)
\* data[i] + data[i + 32] + ...
SumStride(data, i) ==
    IF i > Len(data) THEN 0 ELSE data[i] + SumStride(data, i + 32)

\* crypto.Sha3256. sha3.Sum256 is not part of the repository: a checksum of
\* 32 bytes stands for it, a function of every byte of data and of its length
Sha3256(data) ==
    [i \in 1..32 |-> (SumStride(data, i) + Len(data) + i) % 256]

StrAptosRawTransaction ==
    <<65, 80, 84, 79, 83, 58, 58, 82, 97, 119, 84, 114, 97, 110, 115, 97, 99,
      116, 105, 111, 110>>
StrAptosTransaction ==
    <<65, 80, 84, 79, 83, 58, 58, 84, 114, 97, 110, 115, 97, 99, 116, 105, 111,
      110>>

\* crypto.RawTransactionHashPrefix
RawTransactionHashPrefix == Sha3256(StrAptosRawTransaction)

\* crypto.HashWithPrefix
HashWithPrefix(prefix, message) == Sha3256(prefix \o message)

\* bytesToHex
bytesToHex(b) ==
    <<48, 120>> \o
    [i \in 1..(2 * Len(b)) |->
        IF i % 2 = 1 THEN HexDigit(b[(i + 1) \div 2] \div 16)
        ELSE HexDigit(b[i \div 2] % 16)]

\* a crypto.Signer: its Scheme, its PublicKey and the error of its Sign
Signer(scheme, publicKey, err) ==
    [scheme |-> scheme, publicKey |-> publicKey, err |-> err]

ErrSigner == "signer: sign failed"

\* signer.Sign(message): the signature is made outside the repository; 64
\* bytes stand for it, a function of the key and of the message
Signer_Sign(signer, message) ==
    IF signer.err # NoError THEN VBytesError(NilBytes, signer.err)
    ELSE VBytesError(SomeBytes(Sha3256(signer.publicKey \o message)
                                 \o Sha3256(message \o signer.publicKey)),
                     NoError)

\* RawTransaction.SigningMessage: the pair it returns and its panic
SigningMessage(t) ==
    LET Hashed(r) ==
            IF r.panic # NoPanic \/ r.ret.e # NoError
            THEN [ret |-> r.ret, panic |-> r.panic]
            ELSE [ret |-> VBytesError(
                              SomeBytes(HashWithPrefix(RawTransactionHashPrefix,
                                                       r.ret.s)), NoError),
                  panic |-> NoPanic]
    IN  Hashed(Serialize(t))

\* the RawTxn field of the SignedTransaction Sign returns: the pointer Sign
\* was called on
PointerToCaller == [Void EXCEPT !.k = "*RawTransaction"]

\* what Sign stores in RawTxn for the receiver t
SignStores(t) == PointerToCaller

\* RawTransaction.Sign on the pointer to t: the pair it returns, its panic,
\* and t after the call
RawTransaction_Sign(t, signer) ==
    LET Signed(sig) ==
            IF sig.e # NoError
            THEN [ret |-> [Void EXCEPT !.k = "nil", !.e = sig.e],
                  panic |-> NoPanic, t |-> t]
            ELSE [ret |-> SignedTransaction(
                              SignStores(t),
                              TransactionAuthenticator(
                                  TransactionAuthenticatorSingleSender,
                                  AccountAuthenticatorSingleKey(
                                      AnyPublicKey(signer.scheme, signer.publicKey),
                                      AnySignature(signer.scheme, sig.s)))),
                  panic |-> NoPanic, t |-> t]
        Message(m) ==
            IF m.panic # NoPanic
            THEN [ret |-> Void, panic |-> m.panic, t |-> t]
            ELSE IF m.ret.e # NoError
            THEN [ret |-> [Void EXCEPT !.k = "nil", !.e = m.ret.e],
                  panic |-> NoPanic, t |-> t]
            ELSE Signed(Signer_Sign(signer, m.ret.s))
    IN  Message(SigningMessage(t))

\* the SignedTransaction st with its RawTxn followed to the RawTransaction
\* it points to; t is the caller's RawTransaction
Deref(st, t) ==
    IF st.items[1] = PointerToCaller THEN [st EXCEPT !.items[1] = t] ELSE st

\* SignedTransaction.Bytes while the caller's RawTransaction is t
SignedTransaction_Bytes(st, t) ==
    LET Returned(r) == [ret |-> r.ret, panic |-> r.panic]
    IN  Returned(Serialize(Deref(st, t)))

\* SignedTransaction.Hash while the caller's RawTransaction is t
SignedTransaction_Hash(st, t) ==
    LET prefixHash == Sha3256(StrAptosTransaction)
        Hashed(b) ==
            IF b.panic # NoPanic THEN b
            ELSE IF b.ret.e # NoError
            THEN [ret |-> [VString(<<>>) EXCEPT !.e = b.ret.e], panic |-> NoPanic]
            ELSE [ret |-> VString(bytesToHex(
                              Sha3256(prefixHash \o <<0>> \o b.ret.s))),
                  panic |-> NoPanic]
    IN  Hashed(SignedTransaction_Bytes(st, t))

\* the payloads of the transactions signed: none, a transfer, a script, and
\* a script with a TypeTag without a value
SignPayloads ==
    {TransactionPayloadNil, TransactionPayloadOf(CoinTransfer),
     TransactionPayloadOf(Script(<<161, 28>>, <<>>, <<>>)),
     TransactionPayloadOf(Script(<<161, 28>>, <<TypeTagNil>>, <<>>))}

SequenceNumbers == {Uint64(0, 0, 0, 7), Uint64(0, 0, 0, 8)}
ChainIDs == {1, 4}

RawTransactions ==
    {RawTransaction(a.s, n, p, Uint64(0, 0, 3, 3392), Uint64(0, 0, 0, 100),
                    Uint64(0, 26000, 0, 0), 4) :
        a \in {AccountOne, AccountA1B2}, n \in SequenceNumbers,
        p \in SignPayloads}

Signers ==
    {Signer(Ed25519Scheme, Repeat(17, 32), NoError),
     Signer(Secp256k1Scheme, <<2>> \o Repeat(51, 32), NoError),
     Signer(Ed25519Scheme, Repeat(17, 32), ErrSigner)}

\* the caller's variables after the last step: *raw and signed
RawNow == wlog[Len(wlog)].arg.raw
SignedNow == wlog[Len(wlog)].arg.signed

\* raw := &RawTransaction{...}
BuildRawTransaction ==
    /\ phase = "encode"
    /\ wlog = <<>>
    /\ \E t \in RawTransactions :
        /\ wlog' = <<[call |-> "RawTransaction", arg |-> [raw |-> t, signed |-> VNil]]>>
        /\ ret' = VPtr(t)
    /\ op' = Op("RawTransaction")
    /\ phase' = "raw"
    /\ UNCHANGED <<ser, des, matched, panic>>

\* signed, err := raw.Sign(signer)
CallSign ==
    /\ phase = "raw"
    /\ \E signer \in Signers :
        \E r \in {RawTransaction_Sign(RawNow, signer)} :
        /\ wlog' = Append(wlog, [call |-> "Sign",
                                 arg |-> [raw |-> r.t, signed |-> r.ret]])
        /\ ret' = r.ret
        /\ panic' = r.panic
        /\ phase' = IF r.panic = NoPanic /\ r.ret.e = NoError
                    THEN "signed" ELSE "unsigned"
    /\ op' = Op("Sign")
    /\ UNCHANGED <<ser, des, matched>>

\* the caller assigns to a field of the RawTransaction it signed:
\* raw.SequenceNumber = n, raw.ChainID = c or raw.Payload = p
Assign ==
    /\ phase = "signed"
    /\ Len(wlog) < 2 + MaxAssigns
    /\ \E t \in {[RawNow EXCEPT !.items[1] = VU64(n)] : n \in SequenceNumbers}
              \cup {[RawNow EXCEPT !.n = c] : c \in ChainIDs}
              \cup {[RawNow EXCEPT !.items[2] = p] : p \in SignPayloads} :
        wlog' = Append(wlog, [call |-> "assign",
                              arg |-> [raw |-> t, signed |-> SignedNow]])
    /\ ret' = Void
    /\ op' = Op("assign")
    /\ UNCHANGED <<ser, des, phase, matched, panic>>

\* a method of signed is called and returns r
ReadSigned(name, r) ==
    /\ phase = "signed"
    /\ wlog' = Append(wlog, [call |-> name, arg |-> wlog[Len(wlog)].arg])
    /\ ret' = r.ret
    /\ panic' = r.panic
    /\ op' = Op(name)
    /\ phase' = "read"
    /\ UNCHANGED <<ser, des, matched>>

\* signed.Bytes()
CallBytes == ReadSigned("Bytes", SignedTransaction_Bytes(SignedNow, RawNow))

\* signed.Hash()
CallHash == ReadSigned("Hash", SignedTransaction_Hash(SignedNow, RawNow))

NextSign ==
    \/ BuildRawTransaction
    \/ CallSign
    \/ Assign
    \/ CallBytes
    \/ CallHash

SpecSign == Init /\ [][NextSign]_vars

\* the RawTransaction Sign was called on, as it was when Sign returned
RawWhenSigned == wlog[2].arg.raw

\* C20: a transaction is immutable once signed. Sign changes no field of the
\* RawTransaction it is called on, and whatever the caller assigns to that
\* RawTransaction afterwards, Bytes and Hash of the SignedTransaction return
\* what they return at signing time.
C20_ImmutableOnceSigned ==
    /\ Len(wlog) >= 2 => RawWhenSigned = wlog[1].arg.raw
    /\ phase = "read" /\ op.name = "Bytes" =>
          /\ ret = SignedTransaction_Bytes(SignedNow, RawWhenSigned).ret
          /\ panic = SignedTransaction_Bytes(SignedNow, RawWhenSigned).panic
    /\ phase = "read" /\ op.name = "Hash" =>
          /\ ret = SignedTransaction_Hash(SignedNow, RawWhenSigned).ret
          /\ panic = SignedTransaction_Hash(SignedNow, RawWhenSigned).panic

---------------------------------------------------------------------------
(* The Deserializer pool. des is the instance of the pool: taken, read     *)
(* from, released and taken again. wlog holds one entry, the last call on  *)
(* a Deserializer made by NewDeserializer over the same data and given the *)
(* same calls: arg is the outcome of that call.                            *)

\* variant of AcquireDeserializer that leaves the latched error in place
AcquireDeserializerKeepsError(d, data) == [d EXCEPT !.data = data, !.offset = 0]

\* AcquireDeserializer(data) when the pool hands out the instance d
AcquireDeserializer(d, data) ==
    [d EXCEPT !.data = data, !.offset = 0, !.err = NoError]

\* ReleaseDeserializer(d): the instance as it lies in the pool
ReleaseDeserializer(d) == [d EXCEPT !.data = <<>>]

\* the calls made on a Deserializer taken from the pool
PoolCalls ==
    {Op(n) : n \in {"Bool", "U8", "U16", "U32", "U64", "U128", "U256",
                    "Uleb128", "Bytes", "String", "Remaining"}}
      \cup {OpN(n, l) : n \in {"FixedBytes", "FixedBytesNoCopy"}, l \in {0, 1, 4}}
      \cup {OpT(n, ty) : n \in {"Struct", "Sequence", "Option"}, ty \in Types}
      \cup {OpT("SetError", e) : e \in SetErrorValues}

\* the outcome of the call o on the Deserializer d
Deserializer_Call(d, o) ==
    CASE o.name = "Bool" -> Deserializer_Bool(d)
      [] o.name = "U8" -> Deserializer_U8(d)
      [] o.name = "U16" -> Deserializer_U16(d)
      [] o.name = "U32" -> Deserializer_U32(d)
      [] o.name = "U64" -> Deserializer_U64(d)
      [] o.name = "U128" -> Deserializer_U128(d)
      [] o.name = "U256" -> Deserializer_U256(d)
      [] o.name = "Uleb128" -> Deserializer_Uleb128(d)
      [] o.name = "Bytes" -> Deserializer_Bytes(d)
      [] o.name = "String" -> Deserializer_String(d)
      [] o.name = "Remaining" ->
            Return(d, [Void EXCEPT !.k = "int", !.n = Remaining(d)])
      [] o.name = "FixedBytes" -> Deserializer_FixedBytes(d, o.n)
      [] o.name = "FixedBytesNoCopy" -> Deserializer_FixedBytesNoCopy(d, o.n)
      [] o.name = "Struct" -> Deserializer_Struct(d, o.t)
      [] o.name = "Sequence" -> DeserializeSequence(d, o.t)
      [] o.name = "Option" -> DeserializeOption(d, o.t)
      [] o.name = "SetError" -> Return(Deserializer_SetError(d, o.t), Void)

\* the outcome of the last call on the Deserializer made by NewDeserializer
Fresh == wlog[1].arg

\* d := bcs.AcquireDeserializer(data), next to bcs.NewDeserializer(data); op
\* keeps the offset and the error the instance lay in the pool with
CallAcquireDeserializer ==
    /\ phase \in {"encode", "released"}
    /\ \E data \in WireInputs :
        /\ des' = AcquireDeserializer(des, data)
        /\ wlog' = <<[call |-> "NewDeserializer",
                      arg |-> Return(NewDeserializer(data), Void)]>>
    /\ ret' = Void
    /\ op' = [name |-> "AcquireDeserializer", n |-> des.offset, t |-> des.err]
    /\ phase' = "acquired"
    /\ UNCHANGED <<ser, matched, panic>>

\* the same call on the instance of the pool and on the fresh one
CallOnBoth ==
    /\ phase = "acquired"
    /\ panic = NoPanic
    /\ Fresh.panic = NoPanic
    /\ \E o \in PoolCalls :
        \E r \in {Deserializer_Call(des, o)},
           f \in {Deserializer_Call(Fresh.d, o)} :
            /\ des' = r.d
            /\ ret' = r.ret
            /\ panic' = r.panic
            /\ wlog' = <<[call |-> o.name, arg |-> f]>>
            /\ op' = o
    /\ UNCHANGED <<ser, phase, matched>>

\* bcs.ReleaseDeserializer(d)
CallReleaseDeserializer ==
    /\ phase = "acquired"
    /\ panic = NoPanic
    /\ des' = ReleaseDeserializer(des)
    /\ ret' = Void
    /\ op' = Op("ReleaseDeserializer")
    /\ phase' = "released"
    /\ UNCHANGED <<ser, wlog, matched, panic>>

NextPool ==
    \/ CallAcquireDeserializer
    \/ CallOnBoth
    \/ CallReleaseDeserializer

SpecPool == Init /\ [][NextPool]_vars

\* C21: whatever state the instance of the pool was released in,
\* AcquireDeserializer(data) leaves it in the state of NewDeserializer(data),
\* and every sequence of calls that follows returns the same values, latches
\* the same errors, raises the same panics and leaves the same Remaining()
\* as on the Deserializer made by NewDeserializer(data).
C21_PooledAsFresh ==
    phase = "acquired" =>
        /\ op.name = "AcquireDeserializer" =>
              des = NewDeserializer(des.data) /\ des = Fresh.d
        /\ des = Fresh.d
        /\ ret = Fresh.ret
        /\ panic = Fresh.panic
        /\ Remaining(des) = Remaining(Fresh.d)

\* the instance was released with a latched error and part of its data read,
\* and has been taken again over other data
C21_Witness ==
    /\ phase = "acquired"
    /\ op.name = "AcquireDeserializer"
    /\ op.t # NoError
    /\ op.n > 0
    /\ des.data # <<>>
    /\ des = Fresh.d

---------------------------------------------------------------------------
(* Building a transaction. A Client is made and BuildTransaction is called *)
(* on it again and again; the node answers each request of a call with a   *)
(* value or with a failure. wlog holds one entry, the last call: its arg   *)
(* is [options, node, payload, chainID], chainID being the field of the    *)
(* Client after the call.                                                  *)

DefaultMaxGasAmount == 200000
DefaultGasUnitPrice == 100
DefaultExpirationSeconds == 600

\* a nil *uint64 of BuildOptions and a pointer to v; a request the node
\* fails and one it answers with v
None == <<>>
Some(v) == <<v>>
Fail == <<>>
Answer(v) == <<v>>

\* the uint64 of a small number
Uint64OfInt(n) == Uint64(0, 0, n \div 65536, n % 65536)

ErrGetAccount == "failed to get account info"
ErrGetLedgerInfo == "failed to get ledger info"

\* ApplyBuildOptions over every choice of options
AllBuildOptions ==
    [MaxGasAmount : {None, Some(5000)}, GasUnitPrice : {None, Some(0)},
     ExpirationTimestampSecs : {None, Some(99)},
     SequenceNumber : {None, Some(42)},
     ReplayProtectionNonce : {None, Some(12345)}]

\* the options a caller passes: none, one, all, or a sequence number with a
\* nonce
BuildOptions ==
    {o \in AllBuildOptions :
        \/ Cardinality({f \in DOMAIN o : o[f] # None}) \in {0, 1, 5}
        \/ {f \in DOMAIN o : o[f] # None}
              = {"SequenceNumber", "ReplayProtectionNonce"}}

\* what the node answers during one call: the sequence number of
\* GetAccount, the gas_estimate of EstimateGasPrice, the chain_id of
\* GetLedgerInfo; and what time.Now().Unix() is
NodeAnswers ==
    [account : {Fail, Answer(7)}, gas : {Fail, Answer(150)},
     ledger : {Fail, Answer(1), Answer(4)}, now : {1000}]

\* the payload built over: an entry function
BuildPayloads == {TransactionPayloadOf(CoinTransfer)}

\* the chain id step of BuildTransaction: the field of the Client if it is
\* set, or else what GetLedgerInfo answers
ChainIDStep(chainID, node) ==
    IF chainID = 0 THEN node.ledger ELSE Answer(chainID)

\* Client.BuildTransaction on a Client whose chainID field is chainID: the
\* pair it returns and the field after the call
BuildTransaction(chainID, sender, payload, options, node) ==
    LET sequenceNumber ==
            IF options.SequenceNumber # None THEN options.SequenceNumber
            ELSE node.account
        gasUnitPrice ==
            IF options.GasUnitPrice # None THEN options.GasUnitPrice[1]
            ELSE IF node.gas = Fail THEN DefaultGasUnitPrice
            ELSE node.gas[1]
        maxGasAmount ==
            IF options.MaxGasAmount # None THEN options.MaxGasAmount[1]
            ELSE DefaultMaxGasAmount
        expirationTimestampSecs ==
            IF options.ExpirationTimestampSecs # None
            THEN options.ExpirationTimestampSecs[1]
            ELSE node.now + DefaultExpirationSeconds
    IN  IF sequenceNumber = Fail
        THEN [ret |-> [Void EXCEPT !.k = "nil", !.e = ErrGetAccount],
              chainID |-> chainID]
        ELSE IF ChainIDStep(chainID, node) = Fail
        THEN [ret |-> [Void EXCEPT !.k = "nil", !.e = ErrGetLedgerInfo],
              chainID |-> chainID]
        ELSE [ret |-> VPtr(RawTransaction(
                               sender.s, Uint64OfInt(sequenceNumber[1]), payload,
                               Uint64OfInt(maxGasAmount),
                               Uint64OfInt(gasUnitPrice),
                               Uint64OfInt(expirationTimestampSecs),
                               ChainIDStep(chainID, node)[1])),
              chainID |-> ChainIDStep(chainID, node)[1]]

\* the chainID field of the Client
ClientChainID == wlog[1].arg.chainID

\* c, _ := NewClient(config)
CallNewClient ==
    /\ phase = "encode"
    /\ wlog = <<>>
    /\ wlog' = <<[call |-> "NewClient",
                  arg |-> [options |-> <<>>, node |-> <<>>,
                           payload |-> Void, cached |-> 0,
                           chainID |-> 0]]>>
    /\ ret' = Void
    /\ op' = Op("NewClient")
    /\ phase' = "client"
    /\ UNCHANGED <<ser, des, matched, panic>>

\* rawTxn, err := c.BuildTransaction(ctx, sender, payload, opts...)
CallBuildTransaction ==
    /\ phase \in {"client", "build"}
    /\ \E options \in BuildOptions, node \in NodeAnswers,
          payload \in BuildPayloads :
        \E r \in {BuildTransaction(ClientChainID, AccountOne, payload, options,
                                   node)} :
            /\ wlog' = <<[call |-> "BuildTransaction",
                          arg |-> [options |-> options, node |-> node,
                                   payload |-> payload,
                                   cached |-> ClientChainID,
                                   chainID |-> r.chainID]]>>
            /\ ret' = r.ret
    /\ op' = Op("BuildTransaction")
    /\ phase' = "build"
    /\ UNCHANGED <<ser, des, matched, panic>>

NextBuild ==
    \/ CallNewClient
    \/ CallBuildTransaction

SpecBuild == Init /\ [][NextBuild]_vars

\* the last call of BuildTransaction: what it was given, and the fields of
\* the RawTransaction it returned
BuildReturned == phase = "build"
BuildSucceeded == BuildReturned /\ ret.e = NoError
Given == wlog[1].arg
RawTxn == ret.items[1]
RawSequenceNumber == RawTxn.items[1].s
RawPayload == RawTxn.items[2]
RawMaxGasAmount == RawTxn.items[3].s
RawGasUnitPrice == RawTxn.items[4].s
RawExpiration == RawTxn.items[5].s
RawChainID == RawTxn.n

\* the replay-protection nonce the payload p carries in its extra config,
\* or None
NonceOf(p) ==
    IF p.items # <<>> /\ p.items[1].k = "TransactionInnerPayloadV1"
         /\ p.items[1].items[2].items[2].k = "ptr"
    THEN Some(p.items[1].items[2].items[2].items[1].s)
    ELSE None

\* the value of the option v, if it was passed, is the field f
Passed(v, f) == v # None => f = Uint64OfInt(v[1])

\* C22: BuildTransaction fails if and only if a mandatory fetch fails:
\* GetAccount, made only without WithSequenceNumber, or GetLedgerInfo, made
\* while the Client holds no chain id. A
\* failing EstimateGasPrice fails no build and gives DefaultGasUnitPrice
\* unless WithGasUnitPrice was passed, and the value of every option passed
\* is in the RawTransaction returned.
C22_BuildFailsOnlyOnMandatoryFetch ==
    BuildReturned =>
        /\ ret.e # NoError <=>
              \/ Given.options.SequenceNumber = None /\ Given.node.account = Fail
              \/ Given.cached = 0 /\ Given.node.ledger = Fail
        /\ BuildSucceeded =>
              /\ Given.options.GasUnitPrice = None /\ Given.node.gas = Fail =>
                    RawGasUnitPrice = Uint64OfInt(DefaultGasUnitPrice)
              /\ Passed(Given.options.SequenceNumber, RawSequenceNumber)
              /\ Passed(Given.options.GasUnitPrice, RawGasUnitPrice)
              /\ Passed(Given.options.MaxGasAmount, RawMaxGasAmount)
              /\ Passed(Given.options.ExpirationTimestampSecs, RawExpiration)
              /\ Given.options.ReplayProtectionNonce # None =>
                    NonceOf(RawPayload)
                      = Some(Uint64OfInt(Given.options.ReplayProtectionNonce[1]))

\* C23: no value fetched from the node during one call of BuildTransaction
\* is used by a later call on the same Client: the sequence number, the gas
\* price and the chain id of the RawTransaction returned are what the node
\* answered during this call, wherever the caller passed no option.
C23_NoReuseAcrossCalls ==
    BuildSucceeded =>
        /\ Given.options.SequenceNumber = None =>
              RawSequenceNumber = Uint64OfInt(Given.node.account[1])
        /\ Given.options.GasUnitPrice = None /\ Given.node.gas # Fail =>
              RawGasUnitPrice = Uint64OfInt(Given.node.gas[1])
        /\ Given.node.ledger = Answer(RawChainID)

\* C24: with WithReplayProtectionNonce(n) the RawTransaction returned has
\* the inner payload (discriminant 4) whose extra config carries Some(n),
\* the nonce taking the place of the account's sequence number.
C24_OrderlessBuild ==
    BuildSucceeded /\ Given.options.ReplayProtectionNonce # None =>
        /\ payloadVariant(RawPayload.items[1]) = 4
        /\ NonceOf(RawPayload)
              = Some(Uint64OfInt(Given.options.ReplayProtectionNonce[1]))

\* ---------------------------------------------------------------------
\* Waiting for a transaction: WaitForTransaction and the loop of
\* PollForTransaction, one step of the loop per action, against a node and
\* a context that change while the client waits.
\* ---------------------------------------------------------------------

\* most failures of the node or the network that are not due to the
\* context, and the count of queries kept (larger counts are not told apart)
MaxFailures == 2
MaxQueries == 3

TransactionTypePending == "pending_transaction"
TransactionTypeUser == "user_transaction"
TransactionTypeBlockMetadata == "block_metadata_transaction"

\* a Transaction of the type given; the zero value of the struct
Transaction(type) == [Type |-> type]
ZeroTransaction == Transaction("")

\* Transaction.IsPending
IsPending(t) == t.Type = TransactionTypePending

\* ctx.Err() of a context that is done
ErrCanceled == "context canceled"
ErrDeadlineExceeded == "context deadline exceeded"
\* errors of httpClient.get: http.Client.Do failed, the node answered 404,
\* the node answered 5xx
ErrRequestFailed == "request failed"
ErrAPINotFound == "API error 404"
ErrAPIUnavailable == "API error 503"

\* what the node holds under the hash
NotFound == "not found"
CommittedTypes == {TransactionTypeUser, TransactionTypeBlockMetadata}

\* the context, the node, the failures so far, the queries so far and the
\* answer to the last request
NewWorld ==
    [ctx |-> NoError, node |-> NotFound, failures |-> 0, queries |-> 0,
     longPolls |-> 0, last |-> [txn |-> ZeroTransaction, err |-> NoError]]
World == IF wlog = <<>> THEN NewWorld ELSE wlog[1].arg

\* the answers httpClient.get can give to a request for the transaction in
\* the world w: with ctx done http.Client.Do fails; or else the node
\* answers what it holds, or the request fails
GetAnswers(w) ==
    IF w.ctx # NoError
    THEN {[txn |-> ZeroTransaction, err |-> ErrRequestFailed]}
    ELSE {IF w.node = NotFound
          THEN [txn |-> ZeroTransaction, err |-> ErrAPINotFound]
          ELSE [txn |-> Transaction(w.node), err |-> NoError]}
         \cup (IF w.failures < MaxFailures
               THEN {[txn |-> ZeroTransaction, err |-> ErrRequestFailed],
                     [txn |-> ZeroTransaction, err |-> ErrAPIUnavailable]}
               ELSE {})

\* the world after the answer a
Answered(w, a) ==
    [w EXCEPT !.last = a,
              !.failures = IF w.ctx = NoError /\ a.err \in {ErrRequestFailed,
                                                          ErrAPIUnavailable}
                           THEN @ + 1 ELSE @]

\* variant of the test of PollForTransaction that returns whatever the
\* query found
PollReturnsFound(txn, err) == err = NoError

\* the test of PollForTransaction after a query: return, or wait
PollReturns(txn, err) == err = NoError /\ ~IsPending(txn)

\* the step taken
SetWorld(call, w) == wlog' = <<[call |-> call, arg |-> w]>>

\* c.WaitForTransaction(ctx, hash): one request to wait_by_hash, whose
\* answer is returned
CallWaitForTransaction ==
    /\ phase = "encode"
    /\ \E a \in GetAnswers(World) :
        /\ SetWorld("WaitForTransaction",
                    [Answered(World, a) EXCEPT !.longPolls = @ + 1])
        /\ ret' = a
    /\ op' = Op("WaitForTransaction")
    /\ phase' = "waited"
    /\ UNCHANGED <<ser, des, matched, panic>>

\* c.PollForTransaction(ctx, hash, pollInterval): entering the loop
CallPollForTransaction ==
    /\ phase = "encode"
    /\ SetWorld("PollForTransaction", World)
    /\ op' = Op("PollForTransaction")
    /\ phase' = "query"
    /\ UNCHANGED <<ser, des, ret, matched, panic>>

\* txn, err := c.GetTransactionByHash(ctx, hash) and the test after it
PollQuery ==
    /\ phase = "query"
    /\ \E a \in GetAnswers(World) :
        /\ SetWorld("GetTransactionByHash",
                    [Answered(World, a) EXCEPT
                        !.queries = IF @ < MaxQueries THEN @ + 1 ELSE @])
        /\ IF PollReturns(a.txn, a.err)
           THEN phase' = "returned" /\ ret' = [txn |-> a.txn, err |-> NoError]
           ELSE phase' = "select" /\ ret' = ret
    /\ op' = Op("GetTransactionByHash")
    /\ UNCHANGED <<ser, des, matched, panic>>

\* case <-ctx.Done(): return Response[Transaction]{}, ctx.Err()
SelectDone ==
    /\ phase = "select"
    /\ World.ctx # NoError
    /\ ret' = [txn |-> ZeroTransaction, err |-> World.ctx]
    /\ phase' = "returned"
    /\ op' = Op("ctx.Done")
    /\ UNCHANGED <<ser, wlog, des, matched, panic>>

\* case <-time.After(pollInterval): the loop goes round
SelectTimer ==
    /\ phase = "select"
    /\ phase' = "query"
    /\ op' = Op("time.After")
    /\ UNCHANGED <<ser, wlog, des, ret, matched, panic>>

\* the caller cancels ctx, or its deadline passes, while the client waits
CtxDone ==
    /\ phase \in {"encode", "query", "select"}
    /\ World.ctx = NoError
    /\ \E e \in {ErrCanceled, ErrDeadlineExceeded} :
        SetWorld("cancel", [World EXCEPT !.ctx = e])
    /\ UNCHANGED <<ser, des, phase, matched, op, ret, panic>>

\* the node takes the transaction into its mempool
NodeAccepts ==
    /\ phase \in {"encode", "query", "select"}
    /\ World.node = NotFound
    /\ SetWorld("accept", [World EXCEPT !.node = TransactionTypePending])
    /\ UNCHANGED <<ser, des, phase, matched, op, ret, panic>>

\* the node commits the transaction
NodeCommits ==
    /\ phase \in {"encode", "query", "select"}
    /\ World.node \in {NotFound, TransactionTypePending}
    /\ \E type \in CommittedTypes :
        SetWorld("commit", [World EXCEPT !.node = type])
    /\ UNCHANGED <<ser, des, phase, matched, op, ret, panic>>

NextWait ==
    \/ CallWaitForTransaction
    \/ CallPollForTransaction
    \/ PollQuery
    \/ SelectDone
    \/ SelectTimer
    \/ CtxDone
    \/ NodeAccepts
    \/ NodeCommits

SpecWait == Init /\ [][NextWait]_vars

\* the goroutine in PollForTransaction runs, its timer fires, and a select
\* with ctx.Done() ready again and again takes that case in the end (the
\* Go runtime chooses among the ready cases at random)
SpecWaitFair ==
    /\ SpecWait
    /\ WF_vars(PollQuery)
    /\ WF_vars(SelectTimer)
    /\ SF_vars(SelectDone)

WaitReturned == phase = "waited"
Polling == phase \in {"query", "select"}
PollReturned == phase = "returned"
QueryError(e) == e \in {ErrRequestFailed, ErrAPINotFound, ErrAPIUnavailable}

\* C25: WaitForTransaction makes the long-polling request and, if that
\* fails, polls for the transaction: what it returns is never the failure
\* of the long-polling request, and after such a failure
\* GetTransactionByHash has been asked.
C25_WaitFallsBackToPolling ==
    WaitReturned =>
        /\ World.longPolls = 1
        /\ ~QueryError(ret.err)
        /\ QueryError(World.last.err) => World.queries > 0

\* what PollForTransaction has returned is a transaction that the last
\* query found and that is not pending, or ctx.Err() of a context that is
\* done; it waits only after a query that failed or found the transaction
\* pending
PollSafe ==
    /\ PollReturned =>
          \/ /\ ret.err = NoError
             /\ ~IsPending(ret.txn)
             /\ World.last = ret
          \/ /\ ret.err \in {ErrCanceled, ErrDeadlineExceeded}
             /\ ret.err = World.ctx
             /\ ret.txn = ZeroTransaction
    /\ phase = "select" =>
          /\ World.queries > 0
          /\ World.last.err # NoError \/ IsPending(World.last.txn)

\* C26: PollForTransaction returns a transaction only when
\* GetTransactionByHash succeeded and the transaction is not pending, waits
\* and asks again after an error or a pending transaction, returns ctx.Err()
\* when ctx is done, never a pending transaction or the error of a query;
\* and it returns whenever the transaction is committed or ctx is done.
C26_PollUntilCommittedOrDone ==
    /\ []PollSafe
    /\ (Polling /\ (World.node \in CommittedTypes \/ World.ctx # NoError))
          ~> PollReturned

\* a committed transaction returned after at least one wait
C26_Witness ==
    /\ PollReturned
    /\ ret.err = NoError
    /\ World.queries >= 2
    /\ World.failures > 0

\* ---------------------------------------------------------------------
\* The cursor of the Deserializer
\* ---------------------------------------------------------------------

\* the reads of a fixed number of bytes and that number
FixedWidthCalls ==
    {"Bool", "U8", "U16", "U32", "U64", "U128", "U256", "FixedBytes",
     "FixedBytesNoCopy"}
WidthOf(o) ==
    CASE o.name \in {"Bool", "U8"} -> 1
      [] o.name = "U16" -> 2
      [] o.name = "U32" -> 4
      [] o.name = "U64" -> 8
      [] o.name = "U128" -> 16
      [] o.name = "U256" -> 32
      [] OTHER -> o.n

\* 0 <= offset <= len(data)
CursorInRange == 0 <= des.offset /\ Remaining(des) >= 0

\* a call on the Deserializer, FixedBytes and FixedBytesNoCopy with a
\* length that is not negative
CursorStep ==
    /\ ReadStep
    /\ op'.name \in {"FixedBytes", "FixedBytesNoCopy"} => op'.n >= 0

\* what a call on the Deserializer does to the cursor
CursorMoves ==
    /\ des'.data = des.data
    /\ des'.offset >= des.offset
    /\ des.err # NoError => des' = des
    /\ op'.name \in FixedWidthCalls /\ des.err = NoError =>
          IF des.offset + WidthOf(op') > Len(des.data)
          THEN des'.offset = des.offset /\ des'.err = ErrEndOfInput
          ELSE des'.offset = des.offset + WidthOf(op')
    /\ op'.name = "Uleb128" /\ des'.err = NoError =>
          des'.offset - des.offset \in 1..5
    /\ op'.name \in {"Bytes", "String"} /\ des'.err = NoError
         /\ panic' = NoPanic =>
          des'.offset - des.offset - Len(ret'.s) \in 1..5

\* C27: in every state of a Deserializer 0 <= offset <= len(data); a call
\* never moves the offset back; a read of n bytes that succeeds moves it
\* forward by exactly n, and a read of a fixed number of bytes that fails for
\* lack of input leaves it where it was (lengths of FixedBytes not negative).
C27_CursorInvariant == []CursorInRange /\ [][CursorStep => CursorMoves]_vars

\* a read of a fixed width has failed in the middle of the input, after
\* reads that succeeded
C27_Witness ==
    /\ phase = "decode"
    /\ op.name \in FixedWidthCalls
    /\ des.err = ErrEndOfInput
    /\ 0 < des.offset
    /\ des.offset < Len(des.data)

\* ---------------------------------------------------------------------
\* Element counts sent by a peer: what DeserializeSequence and
\* StructTag.UnmarshalBCS allocate and how often they call the decoder of
\* an element.
\* ---------------------------------------------------------------------

\* counts a peer may send: 0, 1, 2, 3, 127, 128, 2^31-1, 2^32-1
CountPrefixes ==
    {<<0>>, <<1>>, <<2>>, <<3>>, <<127>>, <<128, 1>>,
     <<255, 255, 255, 255, 7>>, <<255, 255, 255, 255, 15>>}

\* what may follow the count of a sequence: nothing, one byte, one, two
\* and three elements of 16 bytes, one of 32 and a byte
ElementBytes ==
    {<<>>, <<1>>, Repeat(0, 16), Repeat(1, 32), Repeat(2, 48), Repeat(3, 33)}

\* what may follow the count of type parameters: nothing, a u8 tag, a u8
\* tag and an unknown one, three u8 tags, vector<u8>, half a vector, an
\* unknown tag, four tags
TypeParamBytes ==
    {<<>>, <<1>>, <<1, 11>>, <<1, 1, 1>>, <<6, 1>>, <<6>>, <<11>>,
     <<0, 2, 3, 4>>}

\* the fields of a StructTag before its type parameters: 0x1::coin::Coin
StructTagHead == AccountOne.s \o <<4>> \o StrCoinModule \o <<4>> \o StrCoinName

RECURSIVE SequenceAttempts(_, _, _, _)
\* the calls of item.UnmarshalBCS made by the for loop of
\* DeserializeSequence with n elements still to read, after i calls
SequenceAttempts(d, t, n, i) ==
    IF n = 0 THEN i
    ELSE LET Item(item) ==
                 IF item.panic # NoPanic \/ item.d.err # NoError THEN i + 1
                 ELSE SequenceAttempts(item.d, t, n - 1, i + 1)
         IN  Item(UnmarshalBCS(d, t))

\* DeserializeSequence on d: the count decoded, the input left after it,
\* the length of the slice it makes and the calls of item.UnmarshalBCS
SequenceCounted(d, t) ==
    LET Counted(l) ==
            IF l.panic # NoPanic \/ l.d.err # NoError
            THEN [read |-> FALSE, remaining |-> Remaining(l.d), made |-> 0,
                  attempts |-> 0]
            ELSE [read |-> TRUE, remaining |-> Remaining(l.d),
                  made |-> IntOfUint32(l.ret.s),
                  attempts |-> SequenceAttempts(l.d, t, IntOfUint32(l.ret.s), 0)]
    IN  IF d.err # NoError
        THEN [read |-> FALSE, remaining |-> Remaining(d), made |-> 0,
              attempts |-> 0]
        ELSE Counted(Deserializer_Uleb128(d))

RECURSIVE TypeParamsLoop(_, _, _)
\* the for loop of StructTag.UnmarshalBCS with n elements still to read,
\* after i calls of UnmarshalBCS: the Deserializer and the calls made when
\* it ends. The loop has no exit but its count; once the Deserializer holds
\* an error each of the calls left returns at once.
TypeParamsLoop(d, n, i) ==
    IF n = 0 THEN [d |-> d, attempts |-> i, panic |-> NoPanic]
    ELSE IF d.err # NoError THEN [d |-> d, attempts |-> i + n, panic |-> NoPanic]
    ELSE LET Element(e) ==
                 IF e.panic # NoPanic
                 THEN [d |-> e.d, attempts |-> i + 1, panic |-> e.panic]
                 ELSE TypeParamsLoop(e.d, n - 1, i + 1)
         IN  Element(UnmarshalBCS(d, "TypeTag"))

\* StructTag.UnmarshalBCS on d: the Deserializer after it, the count
\* decoded, the input left after the count, the length of the TypeParams it
\* makes and the calls of TypeTag.UnmarshalBCS
StructTagCounted(d) ==
    LET Looped(l, r) ==
            [d |-> r.d, panic |-> r.panic, read |-> l.d.err = NoError,
             remaining |-> Remaining(l.d), made |-> IntOfUint32(l.ret.s),
             attempts |-> r.attempts]
        Count(l) == Looped(l, TypeParamsLoop(l.d, IntOfUint32(l.ret.s), 0))
        Name(n) == Count(Deserializer_Uleb128(n.d))
        Module(m) == Name(Deserializer_String(m.d))
        Address(a) == Module(Deserializer_String(a.d))
    IN  Address(UnmarshalBCS(d, "AccountAddress"))

\* items := DeserializeSequence(d, factory) on a Deserializer over a
\* peer's bytes
CallDeserializeSequence ==
    /\ phase = "encode"
    /\ \E prefix \in CountPrefixes, elements \in ElementBytes, t \in Types :
        \E r \in {DeserializeSequence(NewDeserializer(prefix \o elements), t)},
           c \in {SequenceCounted(NewDeserializer(prefix \o elements), t)} :
            /\ des' = r.d
            /\ ret' = r.ret
            /\ panic' = r.panic
            /\ wlog' = <<[call |-> "DeserializeSequence", arg |-> c]>>
            /\ op' = OpT("Sequence", t)
    /\ phase' = "counted"
    /\ UNCHANGED <<ser, matched>>

\* var s StructTag; s.UnmarshalBCS(des) on a Deserializer over a peer's
\* bytes; ret is the length of s.TypeParams
CallStructTagUnmarshalBCS ==
    /\ phase = "encode"
    /\ \E prefix \in CountPrefixes, elements \in TypeParamBytes :
        \E c \in {StructTagCounted(
                      NewDeserializer(StructTagHead \o prefix \o elements))} :
            /\ des' = c.d
            /\ ret' = [Void EXCEPT !.k = "StructTag", !.n = c.made]
            /\ panic' = c.panic
            /\ wlog' = <<[call |-> "StructTag.UnmarshalBCS",
                          arg |-> [read |-> c.read, remaining |-> c.remaining,
                                   made |-> c.made, attempts |-> c.attempts]]>>
    /\ op' = OpT("Struct", "StructTag")
    /\ phase' = "counted"
    /\ UNCHANGED <<ser, matched>>

NextCount ==
    \/ CallDeserializeSequence
    \/ CallStructTagUnmarshalBCS

SpecCount == Init /\ [][NextCount]_vars

\* a count was decoded from the peer's bytes
CountRead == phase = "counted" /\ wlog[1].arg.read
Counted == wlog[1].arg

\* C28: a count decoded from a peer's bytes is checked against the input
\* left before it is used: DeserializeSequence and StructTag.UnmarshalBCS
\* make no slice of more elements than the input left can hold (an element
\* takes at least one byte), call the decoder of an element no more often
\* than the input left allows, and stop at the first element that fails.
C28_CountValidatedBeforeUse ==
    CountRead =>
        /\ Counted.made <= Counted.remaining
        /\ Counted.attempts <= Counted.remaining + 1

\* ---------------------------------------------------------------------
\* The encoders of u128 and u256 arguments
\* ---------------------------------------------------------------------

\* the last call was U128Arg or U256Arg
WideArgCalled ==
    /\ phase \in {"direct", "pooled"}
    /\ LastCall.call \in {"U128Arg", "U256Arg"}

\* C29: U128Arg and U256Arg return 16 and 32 bytes for every *big.Int: a
\* nil, negative or too large argument does not come back as a nil or
\* empty argument.
C29_WideArgLength ==
    WideArgCalled =>
        /\ ret.k = "[]byte"
        /\ Len(ret.s) = (IF LastCall.call = "U128Arg" THEN 16 ELSE 32)

\* ---------------------------------------------------------------------
\* Keys, signatures and single-key authenticators on the wire
\* ---------------------------------------------------------------------

\* the schemes MarshalBCS writes without a length, and one it does not know
KnownSchemes == {Ed25519Scheme, Secp256k1Scheme}
Schemes == KnownSchemes \cup {1}

\* key and signature slices of the lengths of the schemes and of the
\* lengths next to them
PublicKeyBytes ==
    {Repeat(0, n) : n \in {0, 31, 32, 33}} \cup {Repeat(7, 32), Repeat(7, 33)}
SignatureBytes ==
    {Repeat(0, n) : n \in {63, 64, 65}} \cup {Repeat(9, 64)}

AnyPublicKeys == {AnyPublicKey(v, k) : v \in Schemes, k \in PublicKeyBytes}
AnySignatures == {AnySignature(v, s) : v \in Schemes, s \in SignatureBytes}
Authenticators ==
    {AccountAuthenticatorSingleKey(k, s) : k \in AnyPublicKeys,
                                           s \in AnySignatures}

\* a key, a signature or an authenticator is put together
BuildAuthenticator ==
    \E v \in AnyPublicKeys \cup AnySignatures \cup Authenticators :
        Built("literal", [ret |-> v, panic |-> NoPanic])

NextAuth ==
    \/ BuildAuthenticator
    \/ CallSerialize

SpecAuth == Init /\ [][NextAuth]_vars

\* bcs.Serialize returned the bytes of the value it was given
Serialized == phase = "serialized" /\ panic = NoPanic /\ ret.e = NoError
SerializedValue == wlog[1].arg

\* C30: the encoding of an AnyPublicKey or AnySignature of a known scheme
\* has the length of its scheme (1+32 for an Ed25519 key, 1+33 for a
\* secp256k1 key, 1+64 for a signature), and no two different
\* AccountAuthenticatorSingleKey values have the same encoding.
C30_KeyLengthFixedByVariant ==
    Serialized =>
        /\ SerializedValue.k = "AnyPublicKey" /\ SerializedValue.n \in KnownSchemes =>
              Len(ret.s) = 1 + (IF SerializedValue.n = Ed25519Scheme THEN 32 ELSE 33)
        /\ SerializedValue.k = "AnySignature" /\ SerializedValue.n \in KnownSchemes =>
              Len(ret.s) = 1 + 64
        /\ SerializedValue.k = "AccountAuthenticatorSingleKey" =>
              \A b \in Authenticators : b # SerializedValue => Serialize(b).ret # ret

===========================================================================
